---- MODULE Spec2Model ----
(***************************************************************************)
(* Verification model of the recon framework core: the Repository          *)
(* (check-then-insert dedup over a store with uniqueness constraints),      *)
(* the Process Registry (ScanRegistry), the Task Manager                    *)
(* (run_tasks_in_parallel), the Redis fixed-window Rate Limiter, the        *)
(* Orchestrator's provider wrapper (run_provider_wrapper) and the scan      *)
(* background tasks with cancellation.                                      *)
(*                                                                          *)
(* Each component has its own specification over the shared variables;      *)
(* a specification leaves the variables of the other components at their    *)
(* initial values.                                                          *)
(***************************************************************************)
EXTENDS Integers, Sequences, FiniteSets, TLC

(***************************************************************************)
(* Bounds and small input domains                                           *)
(***************************************************************************)
NumCallers == 3

Callers == 1..NumCallers

\* hostnames that the tools report
Names == {"a.example.com", "b.example.com"}

\* target domains of scans
Targets == {"example.com", "example.org"}

NumTasks == 2

NumTMTasks == 3

\* the tasks handed to run_tasks_in_parallel
TMTasks == 1..NumTMTasks

\* result values (they stand for strings; their order is the sort order)
Vals == {1, 2}

MaxListLen == 2

NumRLCallers == 3

\* the concurrent callers of acquire
RLCallers == 1..NumRLCallers

MaxLimit == 2

\* the window indices the clock goes through
Windows == {0, 1}

\* largest counter value a retry loop is followed to
MaxCount == NumRLCallers + 1

RLKeys == {"rate_limit:example.com"}

\* the keys Redis may hold counters for: one per target
AllRLKeys == RLKeys \cup {"rate_limit:example.org"}

\* the concurrent run_provider_wrapper calls
Wrappers == {"w1", "w2"}

\* events the provider streams yield in one run, all wrappers together
MaxEvents == 3

\* lines a tool writes to stdout before it closes it
MaxLines == 2

\* tasks that each spawn one subprocess; the task id names its handle
Tasks == 1..NumTasks

ScanIds == {"scanA", "scanB"}

\* URLs the crawlers report
CrawlUrls == {"http://a.example.com/x"}

VARIABLES
  subdomains,   \* table `subdomains`: sequence of rows, the index is the id
  call,         \* concurrent add_subdomain callers: [pc, target, sub, tool, ret]
  active_scans, \* ScanRegistry.active_scans: scan id -> list of handles
  proc,         \* OS state of each handle: "none", "running", "exited"
  termCalls,    \* handles on which the registry called terminate()
  signalled,    \* handles that received the terminate signal while running
  scanState,    \* per scan id: "new", "running" (registered), "ended"
  task,         \* per task: [pc, scan]
  ops,          \* the last two registry operations: [op, id, ret, had]
  cancelled,    \* scan ids for which cancel_scan returned True
  crawled,      \* table `crawled_urls`: sequence of rows
  spc,          \* position of the scan's background task
  skind,        \* "full" or "quick"
  ptask,        \* per tool of the running scan: state of its runner
  events,       \* status events broadcast for the scan, in order
  phases,       \* phases the orchestrator has started, in order
  tmState,      \* run_tasks_in_parallel: per task "running", "returned", ...
  tmResult,     \* what each task's wrapper returned
  tmDeadline,   \* whether process_timeout is set
  tmPc,         \* "gather" while the batch is awaited, then "returned"
  tmOutcome,    \* "-", "ok" or "timeout"
  tmRet,        \* the list run_tasks_in_parallel returned
  rlLimit,      \* the limit the acquire calls pass
  rlNow,        \* index of the current window, int(time.time() / period)
  rlCount,      \* Redis: value of the counter rl:{key}:{ts}, 0 when absent
  rlTTL,        \* Redis: the window keys that carry an expiry
  rlCall,       \* per caller: position in acquire and its locals
  rlHits,       \* history: the non-blocking callers that incremented a live counter
  rlGranted,    \* history: the callers a live counter let through
  vulns,        \* rows of the vulnerabilities table, in insertion order
  providers,    \* names registered in the provider registry
  has_callback, \* whether run_provider_wrapper is given a broadcast_callback
  wrap,         \* per run_provider_wrapper call: position and locals
  sub_events,   \* number of "subdomain" is_new events broadcast, per name
  emitted,      \* number of events the provider streams have yielded so far
  aliveStore,   \* two copies of the subdomains table: updated by URL, by hostname
  aliveOp,      \* the update_subdomain_alive argument pair last applied
  aliveOnce,    \* the copies and return values after the first application
  pv,           \* one provider's stream_output generator: position and locals
  pout,         \* the events that generator has yielded, in order
  deployment,   \* "local" (one process) or "distributed" (Celery workers)
  published,    \* number of events the jobs' callbacks published to Redis
  celery        \* the number of jobs enqueued with .delay(), per task and argument

repoVars == <<subdomains, call>>

regVars == <<active_scans, proc, termCalls, signalled, scanState, task, ops, cancelled>>

scanVars == <<crawled, spc, skind, ptask, events, phases>>

aliveVars == <<aliveStore, aliveOp, aliveOnce>>

\* the components checked on their own, apart from scans and wrappers
provVars == <<pv, pout>>

\* the Celery jobs of core/tasks.py
distVars == <<deployment, published, celery>>

extraVars == <<aliveVars, provVars, distVars>>

wrapVars == <<vulns, providers, has_callback, wrap, sub_events, emitted>>

rlVars == <<rlLimit, rlNow, rlCount, rlTTL, rlCall, rlHits, rlGranted>>

tmVars == <<tmState, tmResult, tmDeadline, tmPc, tmOutcome, tmRet>>

vars == <<subdomains, call, active_scans, proc, termCalls, signalled, scanState,
          task, ops, cancelled, crawled, spc, skind, ptask, events, phases,
          tmState, tmResult, tmDeadline, tmPc, tmOutcome, tmRet,
          rlLimit, rlNow, rlCount, rlTTL, rlCall, rlHits, rlGranted,
          vulns, providers, has_callback, wrap, sub_events, emitted,
          aliveStore, aliveOp, aliveOnce, pv, pout, deployment, published, celery>>

\* the variables of the components that take no part in a scan
restVars == <<tmVars, rlVars, wrapVars, extraVars>>

notRepo == <<regVars, scanVars, restVars>>

notReg == <<repoVars, scanVars, restVars>>

notTM == <<repoVars, regVars, scanVars, rlVars, wrapVars, extraVars>>

notRL == <<repoVars, regVars, scanVars, tmVars, wrapVars, extraVars>>

notAlive == <<repoVars, regVars, scanVars, tmVars, rlVars, wrapVars, provVars,
              distVars>>

\* what no step of a provider's stream touches
notProv == <<repoVars, regVars, scanVars, tmVars, rlVars, wrapVars, aliveVars,
             distVars>>

\* what no run_provider_wrapper step touches
notWrap == <<call, regVars, spc, skind, ptask, events, phases, tmVars, rlVars,
             aliveVars, provVars>>

(***************************************************************************)
(* Generic helpers                                                          *)
(***************************************************************************)
Range(f) == {f[x] : x \in DOMAIN f}

Indices(seq, P(_)) == {i \in 1..Len(seq) : P(seq[i])}

(***************************************************************************)
(* Repository: Subdomain table                                              *)
(***************************************************************************)
\* Subdomain(target_domain, subdomain, source_tool), is_alive defaults to False
NewSubdomain(target_domain, subdomain, source_tool) ==
  [target_domain |-> target_domain, subdomain |-> subdomain,
   source_tool |-> source_tool, is_alive |-> FALSE]

\* select(Subdomain).filter_by(subdomain=s) ... .first() is not None
SubdomainExists(rows, s) == \E i \in 1..Len(rows) : rows[i].subdomain = s

\* mutant: the column carries no uniqueness constraint
SubdomainUniqueViolation_NoConstraint(rows, s) == FALSE

\* Column(String, unique=True): the INSERT of a second row with the same
\* subdomain makes commit() raise IntegrityError
SubdomainUniqueViolation(rows, s) == SubdomainExists(rows, s)

\* rows the Root seeding of a phase-1 start may have left in the table
SeedRows ==
  { <<>>,
    <<NewSubdomain("example.com", "example.com", "Root")>>,
    <<NewSubdomain("example.com", "b.example.com", "Root")>> }

SubRowsOf(s) == Indices(subdomains, LAMBDA r : r.subdomain = s)

\* s was in the table before any caller ran
PreStored(s) == \E i \in SubRowsOf(s) : subdomains[i].source_tool = "Root"

(***************************************************************************)
(* SpecRepo: concurrent add_subdomain callers                               *)
(***************************************************************************)
IdleCall ==
  [pc |-> "idle", target |-> "-", sub |-> "-", tool |-> "-", ret |-> "-", err |-> "-"]

RepoAtRest ==
  /\ subdomains = <<>>
  /\ call = [c \in Callers |-> IdleCall]

IdleTask == [pc |-> "idle", scan |-> "-"]

\* ScanRegistry.__new__: active_scans = {}
RegAtRest ==
  /\ active_scans = [id \in {} |-> <<>>]
  /\ proc = [h \in Tasks |-> "none"]
  /\ termCalls = {}
  /\ signalled = {}
  /\ scanState = [id \in ScanIds |-> "new"]
  /\ task = [t \in Tasks |-> IdleTask]
  /\ ops = <<>>
  /\ cancelled = {}

\* tools a scan runs: three subdomain providers, the HTTPX provider, and the
\* legacy Katana, GAU and Nuclei runners
SubdomainProviders == {"Subfinder", "Assetfinder", "Findomain"}

LegacyRunners == {"Katana", "GAU", "Nuclei"}

ToolNames == SubdomainProviders \cup {"HTTPX"} \cup LegacyRunners

ScanAtRest ==
  /\ crawled = <<>>
  /\ spc = "new"
  /\ skind = "-"
  /\ ptask = [n \in ToolNames |-> "idle"]
  /\ events = <<>>
  /\ phases = <<>>

PyNone == [kind |-> "None", items |-> <<>>]

TMAtRest ==
  /\ tmState = [i \in TMTasks |-> "running"]
  /\ tmResult = [i \in TMTasks |-> PyNone]
  /\ tmDeadline = TRUE
  /\ tmPc = "gather"
  /\ tmOutcome = "-"
  /\ tmRet = <<>>

IdleAcquire ==
  [pc |-> "idle", key |-> "-", block |-> FALSE, ts |-> 0, ret |-> "-", called |-> 0]

RLAtRest ==
  /\ rlLimit = 1
  /\ rlNow = 0
  /\ rlCount = [k \in AllRLKeys |-> [w \in Windows |-> 0]]
  /\ rlTTL = {}
  /\ rlCall = [c \in RLCallers |-> IdleAcquire]
  /\ rlHits = [k \in AllRLKeys |-> [w \in Windows |-> {}]]
  /\ rlGranted = [k \in AllRLKeys |-> [w \in Windows |-> {}]]

IdleWrapper ==
  [pc |-> "idle", provider_name |-> "-", target |-> "-", db_target_domain |-> "-",
   results |-> <<>>, row |-> 0, err |-> "-"]

WrapAtRest ==
  /\ vulns = <<>>
  /\ providers = {}
  /\ has_callback = FALSE
  /\ wrap = [w \in Wrappers |-> IdleWrapper]
  /\ sub_events = [s \in Names |-> 0]
  /\ emitted = 0

NoAliveOp ==
  [scheme |-> "-", h |-> "-", path |-> <<>>, is_alive |-> FALSE, times |-> "none"]

AliveAtRest ==
  /\ aliveStore = [url |-> <<>>, host |-> <<>>]
  /\ aliveOp = NoAliveOp
  /\ aliveOnce = [url |-> <<>>, host |-> <<>>, url_ret |-> FALSE, host_ret |-> FALSE]

\* no line read yet
NoLine == [blank |-> TRUE, utf8 |-> TRUE, json |-> "invalid", has_target |-> FALSE]

\* a generator that has not been called
ProvIdle ==
  [name |-> "-", pc |-> "idle", nread |-> 0, cur |-> NoLine, pending |-> <<>>,
   proc |-> "none", rc |-> 0]

ProvAtRest == pv = ProvIdle /\ pout = <<>>

\* the URLs a host-discovery job can hand to task_crawling.delay
CrawlJobUrls ==
  {<<"http://", "a.example.com">>, <<"https://", "b.example.com", "/", "login">>}

\* the targets a crawl job can be started with
CrawlJobTargets == {"example.org", "http://a.example.com"}

\* nothing enqueued
EmptyQueue ==
  [task_host_discovery |-> [s \in Names |-> 0],
   task_crawling |-> [u \in CrawlJobUrls |-> 0],
   task_vuln_scan |-> [t \in CrawlJobTargets |-> 0]]

DistAtRest == deployment = "local" /\ published = 0 /\ celery = EmptyQueue

ExtraAtRest == AliveAtRest /\ ProvAtRest /\ DistAtRest

RestAtRest == TMAtRest /\ RLAtRest /\ WrapAtRest /\ ExtraAtRest

InitRepo ==
  /\ subdomains \in SeedRows
  /\ call = [c \in Callers |-> IdleCall]
  /\ RegAtRest
  /\ ScanAtRest
  /\ RestAtRest

\* add_subdomain(target_domain, subdomain, source_tool) is invoked and opens
\* its session
AddSubdomainCall(c, t, s) ==
  /\ call[c].pc = "idle"
  /\ call' = [call EXCEPT ![c] = [pc |-> "select", target |-> t, sub |-> s,
                                  tool |-> "Subfinder", ret |-> "-",
                                  err |-> "-"]]
  /\ UNCHANGED <<subdomains, notRepo>>

\* the existence check: return False when a row is found
AddSubdomainSelect(c) ==
  /\ call[c].pc = "select"
  /\ IF SubdomainExists(subdomains, call[c].sub)
       THEN call' = [call EXCEPT ![c].pc = "done", ![c].ret = "False"]
       ELSE call' = [call EXCEPT ![c].pc = "commit"]
  /\ UNCHANGED <<subdomains, notRepo>>

\* session.add(new_sub); await session.commit(): True, or IntegrityError ->
\* rollback, False
AddSubdomainCommit(c) ==
  /\ call[c].pc = "commit"
  /\ IF SubdomainUniqueViolation(subdomains, call[c].sub)
       THEN /\ call' = [call EXCEPT ![c].pc = "done", ![c].ret = "False",
                                     ![c].err = "IntegrityError"]
            /\ UNCHANGED subdomains
       ELSE /\ subdomains' = Append(subdomains,
                 NewSubdomain(call[c].target, call[c].sub, call[c].tool))
            /\ call' = [call EXCEPT ![c].pc = "done", ![c].ret = "True"]
  /\ UNCHANGED notRepo

NextRepo ==
  \/ \E c \in Callers, t \in Targets, s \in Names : AddSubdomainCall(c, t, s)
  \/ \E c \in Callers : AddSubdomainSelect(c)
  \/ \E c \in Callers : AddSubdomainCommit(c)

SpecRepo == InitRepo /\ [][NextRepo]_vars

CallsOf(s) == {c \in Callers : call[c].sub = s}

DoneCallsOf(s) == {c \in CallsOf(s) : call[c].pc = "done"}

\* C1: of the concurrent add_subdomain calls with the same, not yet stored
\* subdomain s, exactly one returns True and all others False, and exactly
\* one row for s exists, whatever the interleaving of their checks and commits
C1_ExactlyOneTrue ==
  \A s \in Names :
    (~PreStored(s) /\ DoneCallsOf(s) # {}) =>
       /\ Cardinality({c \in DoneCallsOf(s) : call[c].ret = "True"}) = 1
       /\ Cardinality(SubRowsOf(s)) = 1

\* every caller asked for the same new subdomain, all passed the existence
\* check before the first commit, and the losers got IntegrityError
C1_Witness ==
  \E s \in Names :
    /\ ~PreStored(s)
    /\ DoneCallsOf(s) = Callers
    /\ Cardinality({c \in Callers : call[c].err = "IntegrityError"}) = NumCallers - 1
    /\ Cardinality(SubRowsOf(s)) = 1

\* get_subdomains(target_domain): the subdomain column of the rows of the
\* target, in table order
GetSubdomains(rows, t) ==
  LET of == SelectSeq(rows, LAMBDA r : r.target_domain = t)
  IN  [i \in 1..Len(of) |-> of[i].subdomain]

\* the subdomains that were added with target_domain t: by the Root seeding
\* and by the add_subdomain calls that have returned
AddedFor(t) ==
  {subdomains[i].subdomain :
     i \in {j \in 1..Len(subdomains) : /\ subdomains[j].target_domain = t
                                       /\ subdomains[j].source_tool = "Root"}}
  \cup {call[c].sub : c \in {k \in Callers : call[k].pc = "done" /\ call[k].target = t}}

\* no add_subdomain call is between its invocation and its return
NoCallInFlight == \A c \in Callers : call[c].pc \in {"idle", "done"}

\* C11: after any sequence of add_subdomain calls over several targets,
\* get_subdomains(t) returns each subdomain added with target_domain t
\* exactly once, also when the same name was added under two targets
C11_GetSubdomainsComplete ==
  NoCallInFlight =>
    \A t \in Targets :
      LET got == GetSubdomains(subdomains, t)
      IN  /\ Range(got) = AddedFor(t)
          /\ Cardinality(Range(got)) = Len(got)

(***************************************************************************)
(* Process Registry (ScanRegistry) and the tasks that spawn subprocesses    *)
(***************************************************************************)
Registered(id) == id \in DOMAIN active_scans

Tracked(id) == IF Registered(id) THEN Range(active_scans[id]) ELSE {}

\* mutant: the whole registry is cleared
Without_Clear(id) == [k \in {} |-> <<>>]

\* del self.active_scans[scan_id]
Without(id) == [k \in DOMAIN active_scans \ {id} |-> active_scans[k]]

\* the history keeps the last two registry operations
Logged(entry) == IF Len(ops) < 2 THEN Append(ops, entry) ELSE <<ops[2], entry>>

OpEntry(op, id, ret) ==
  [op |-> op, id |-> id, ret |-> ret, known |-> Registered(id), had |-> Tracked(id)]

\* register_scan(scan_id); each scan id is a fresh uuid4, registered once by
\* its background task
RegisterScan(id) ==
  /\ scanState[id] = "new"
  /\ active_scans' = IF Registered(id) THEN active_scans
                     ELSE active_scans @@ (id :> <<>>)
  /\ scanState' = [scanState EXCEPT ![id] = "running"]
  /\ ops' = Logged(OpEntry("register", id, "-"))
  /\ UNCHANGED <<proc, termCalls, signalled, task, cancelled, notReg>>

\* a task of a started scan launches its tool: create_subprocess_shell
SpawnProcess(t, id) ==
  /\ task[t].pc = "idle"
  /\ scanState[id] = "running"
  /\ proc' = [proc EXCEPT ![t] = "running"]
  /\ task' = [task EXCEPT ![t] = [pc |-> "spawned", scan |-> id]]
  /\ UNCHANGED <<active_scans, termCalls, signalled, scanState, ops, cancelled, notReg>>

\* mutant: add_process tracks the handle without looking at the id
AfterAddProcess_Always(id, h) ==
  IF Registered(id)
    THEN [active_scans EXCEPT ![id] = Append(@, h)]
    ELSE active_scans @@ (id :> <<h>>)

\* add_process(scan_id, process): append only if the id is registered
AfterAddProcess(id, h) ==
  IF Registered(id)
    THEN [active_scans EXCEPT ![id] = Append(@, h)]
    ELSE active_scans

\* if scan_id: registry.add_process(scan_id, process), then the read loop
AddProcess(t) ==
  /\ task[t].pc = "spawned"
  /\ active_scans' = AfterAddProcess(task[t].scan, t)
  /\ task' = [task EXCEPT ![t].pc = "reading"]
  /\ ops' = Logged(OpEntry("add", task[t].scan, "-"))
  /\ UNCHANGED <<proc, termCalls, signalled, scanState, cancelled, notReg>>

\* the subprocess exits, by itself or after a terminate signal
ProcessExit(t) ==
  /\ proc[t] = "running"
  /\ proc' = [proc EXCEPT ![t] = "exited"]
  /\ UNCHANGED <<active_scans, termCalls, signalled, scanState, task, ops, cancelled,
                 notReg>>

\* readline() returns EOF, process.wait() returns, the task returns
TaskFinish(t) ==
  /\ task[t].pc = "reading"
  /\ proc[t] = "exited"
  /\ task' = [task EXCEPT ![t].pc = "done"]
  /\ UNCHANGED <<active_scans, proc, termCalls, signalled, scanState, ops, cancelled,
                 notReg>>

\* remove_scan(scan_id), called in the finally of the scan's background task
\* once the scan's tasks have returned
RemoveScan(id) ==
  /\ scanState[id] = "running"
  /\ \A t \in Tasks : task[t].scan = id => task[t].pc = "done"
  /\ active_scans' = IF Registered(id) THEN Without(id) ELSE active_scans
  /\ scanState' = [scanState EXCEPT ![id] = "ended"]
  /\ ops' = Logged(OpEntry("remove", id, "-"))
  /\ UNCHANGED <<proc, termCalls, signalled, task, cancelled, notReg>>

\* mutant: no try/except in the loop, which ends at the first handle whose
\* terminate() raises
TerminateTargets_UntilRaise(id) ==
  IF Registered(id)
    THEN LET hs == active_scans[id]
             bad == {i \in 1..Len(hs) : proc[hs[i]] = "exited"}
         IN  {hs[i] : i \in {j \in 1..Len(hs) : \A k \in bad : j <= k}}
    ELSE {}

\* mutant: the loop stops after the first tracked handle
TerminateTargets_FirstOnly(id) ==
  IF Registered(id) /\ Len(active_scans[id]) > 0 THEN {active_scans[id][1]} ELSE {}

\* for process in self.active_scans[scan_id]: process.terminate()
TerminateTargets(id) == Tracked(id)

\* cancel_scan(scan_id): terminate() every tracked handle (a handle that has
\* already exited raises, which is caught), delete the id, return True; False
\* when the id is not registered.  The method has no suspension point.
CancelScanBody(id) ==
  IF Registered(id)
    THEN /\ termCalls' = termCalls \cup TerminateTargets(id)
         /\ signalled' = signalled \cup
                           {h \in TerminateTargets(id) : proc[h] = "running"}
         /\ active_scans' = Without(id)
         /\ cancelled' = cancelled \cup {id}
    ELSE UNCHANGED <<termCalls, signalled, active_scans, cancelled>>

\* what cancel_scan returns
CancelScanResult(id) == IF Registered(id) THEN "True" ELSE "False"

CancelScan(id) ==
  /\ CancelScanBody(id)
  /\ ops' = Logged(OpEntry("cancel", id, CancelScanResult(id)))
  /\ UNCHANGED <<proc, scanState, task, notReg>>

InitReg == RegAtRest /\ RepoAtRest /\ ScanAtRest /\ RestAtRest

NextReg ==
  \/ \E id \in ScanIds : RegisterScan(id)
  \/ \E t \in Tasks, id \in ScanIds : SpawnProcess(t, id)
  \/ \E t \in Tasks : AddProcess(t)
  \/ \E t \in Tasks : ProcessExit(t)
  \/ \E t \in Tasks : TaskFinish(t)
  \/ \E id \in ScanIds : RemoveScan(id)
  \/ \E id \in ScanIds : CancelScan(id)

SpecReg == InitReg /\ [][NextReg]_vars

LastOp == ops[Len(ops)]

\* C2: an add_process racing a cancel_scan never leaves an untracked,
\* unterminated process running: once the task is past its add_process and
\* the scan was cancelled, its running process is tracked or was signalled
C2_NoUntrackedProcess ==
  \A t \in Tasks :
    (task[t].pc = "reading" /\ task[t].scan \in cancelled /\ proc[t] = "running")
      => (t \in Tracked(task[t].scan) \/ t \in signalled)

\* C3: cancel_scan(id) on a registered id calls terminate() on every tracked
\* handle (signalling each one still running), returns True and leaves the id
\* unregistered; a cancel_scan(id) that directly follows one returns False
C3_CancelTerminatesAll ==
  /\ (ops # <<>> /\ LastOp.op = "cancel") =>
        /\ ~Registered(LastOp.id)
        /\ LastOp.had \subseteq termCalls
        /\ \A h \in LastOp.had : proc[h] = "running" => h \in signalled
  /\ \A i \in 1..Len(ops) :
        ops[i].op = "cancel" => (ops[i].ret = "True" <=> ops[i].known)
  /\ (Len(ops) = 2 /\ ops[1].op = "cancel" /\ ops[2].op = "cancel"
        /\ ops[1].id = ops[2].id) => ops[2].ret = "False"

\* two handles were added for one scan, the scan was cancelled (True) while
\* both were running, and cancelled again (False)
C3_Witness ==
  /\ Len(ops) = 2
  /\ ops[1].op = "cancel" /\ ops[1].ret = "True"
  /\ Cardinality(ops[1].had) >= 2
  /\ ops[1].had \subseteq signalled
  /\ ops[2].op = "cancel" /\ ops[2].id = ops[1].id /\ ops[2].ret = "False"

\* C16: add_process(id, handle) appends the handle to the tracked list of id
\* when id is registered; when it is not (the scan was cancelled or removed)
\* the registry is left as it was and no entry for id appears
C16_AddProcessOnlyIfRegistered ==
  [][\A t \in Tasks :
       (task[t].pc = "spawned" /\ task'[t].pc = "reading") =>
          /\ termCalls' = termCalls /\ signalled' = signalled
          /\ IF Registered(task[t].scan)
               THEN active_scans' =
                      [active_scans EXCEPT ![task[t].scan] = Append(@, t)]
               ELSE /\ active_scans' = active_scans
                    /\ task[t].scan \notin DOMAIN active_scans']_vars

\* the last operation was an add_process for an id that cancel_scan had
\* deleted while another scan with a tracked handle stays registered
C16_Witness ==
  /\ ops # <<>>
  /\ LastOp.op = "add"
  /\ ~LastOp.known
  /\ LastOp.id \in cancelled
  /\ ~Registered(LastOp.id)
  /\ \E id \in ScanIds : Registered(id) /\ Tracked(id) # {}

\* C38: cancel_scan(id) is best-effort per handle: when terminate() raises
\* for a tracked handle (its process has exited), every other tracked handle
\* still receives terminate, id is removed and the call returns True without
\* waiting for any subprocess to exit
C38_CancelIsBestEffort ==
  [][\A id \in ScanIds :
       (/\ Registered(id)
        /\ \E h \in Tracked(id) : proc[h] = "exited"
        /\ id \in cancelled' \ cancelled) =>
          /\ Tracked(id) \subseteq termCalls'
          /\ \A h \in Tracked(id) : proc[h] = "running" => h \in signalled'
          /\ id \notin DOMAIN active_scans'
          /\ ops'[Len(ops')].op = "cancel" /\ ops'[Len(ops')].ret = "True"
          /\ proc' = proc]_vars

\* the last operation cancelled a scan with two handles: terminate() raised
\* for the first, whose process had exited, and the second, still running,
\* was signalled
C38_Witness ==
  /\ ops # <<>>
  /\ LastOp.op = "cancel" /\ LastOp.ret = "True"
  /\ \E h1, h2 \in LastOp.had :
       /\ h1 \in termCalls \ signalled /\ proc[h1] = "exited"
       /\ h2 \in signalled /\ proc[h2] = "running"

\* the step is a registry operation on the id b
OperatesOn(b) == ops' # ops /\ ops'[Len(ops')].id = b

\* C39: register_scan, add_process, remove_scan and cancel_scan on one id
\* leave the tracked handles of every other registered id as they were and
\* send no terminate to them, in every interleaving
C39_OtherScansUntouched ==
  [][\A b \in ScanIds :
       (Registered(b) /\ ~OperatesOn(b)) =>
          /\ b \in DOMAIN active_scans'
          /\ active_scans'[b] = active_scans[b]
          /\ (termCalls' \ termCalls) \cap Tracked(b) = {}
          /\ (signalled' \ signalled) \cap Tracked(b) = {}]_vars

\* a scan with a tracked handle was cancelled while another scan stays
\* registered with its own handle, which no terminate has reached
C39_Witness ==
  /\ ops # <<>>
  /\ LastOp.op = "cancel" /\ LastOp.ret = "True" /\ LastOp.had # {}
  /\ \E b \in ScanIds \ {LastOp.id} :
       /\ Registered(b)
       /\ Tracked(b) # {}
       /\ Tracked(b) \cap termCalls = {}

\* the data of a result event; a provider fills the fields of its tool
NoData ==
  [subdomain |-> "", url |-> <<>>, endpoint |-> "", name |-> "", matched |-> "",
   matcher |-> "None"]

NucleiFindings ==
  { [NoData EXCEPT !.name = "Git Config",
                   !.matched = "http://a.example.com/.git/config"],
    [NoData EXCEPT !.name = "Git Config",
                   !.matched = "http://a.example.com/.git/config",
                   !.matcher = "word-1"],
    [NoData EXCEPT !.matched = "http://a.example.com/.git/config"] }

\* Vulnerability(target_domain, name, url, matcher_name); severity and
\* description are carried along and take no part in any decision
NewVulnerability(target_domain, name, url, matcher) ==
  [target_domain |-> target_domain, name |-> name, url |-> url,
   matcher_name |-> matcher]

\* mutant: the existence check never finds a row
VulnerabilityExists_Never(rows, target_domain, name, url, matcher) == FALSE

\* select(Vulnerability).filter_by(target_domain, name, url, matcher_name)
VulnerabilityExists(rows, target_domain, name, url, matcher) ==
  \E i \in 1..Len(rows) : rows[i] = NewVulnerability(target_domain, name, url, matcher)

\* the JSON lines nuclei prints during a scan: a finding with info.name
\* and one without
ScanFindings == {f \in NucleiFindings : f.matcher = "None"}

\* run_nuclei: vuln_data.get('info', {}).get('name', 'Unknown')
LegacyFindingName(f) == IF f.name = "" THEN "Unknown" ELSE f.name

\* async_add_vulnerability run to completion
WithVulnerability(rows, d, name, url, matcher) ==
  IF VulnerabilityExists(rows, d, name, url, matcher) THEN rows
  ELSE Append(rows, NewVulnerability(d, name, url, matcher))

(***************************************************************************)
(* SpecScan: one scan started through POST /scan/{domain}, its phases, and  *)
(* the POST /cancel-scan/{scan_id} endpoint                                 *)
(***************************************************************************)
TheScan == "scanA"

TheDomain == "example.com"

\* hostnames the subdomain providers report during the scan
ScanNames == {"a.example.com"}

Unfinished == {"started", "spawned", "reading"}

Settled == {"done", "raised", "cancelled", "skipped"}

\* the runners of a finished phase are gone and the handles of their exited
\* subprocesses are released
Released(tools) ==
  [n \in ToolNames |-> IF n \in tools /\ proc[n] = "exited" THEN "none" ELSE proc[n]]

\* status messages that end a scan: "... complete for", "Scan failed: ...",
\* "Scan ... was cancelled.", "Scan ... aborted by user."
TerminalStatus == {"complete", "failed", "cancelled", "aborted"}

NewCrawledURL(target_domain, url, source_tool) ==
  [target_domain |-> target_domain, url |-> url, source_tool |-> source_tool]

\* get_alive_subdomains(target_domain)
AliveSubdomains(rows, d) ==
  {rows[i].subdomain : i \in {j \in 1..Len(rows) :
                                 rows[j].target_domain = d /\ rows[j].is_alive}}

\* get_crawled_urls(target_domain)
CrawledUrls(rows, d) ==
  {rows[i].url : i \in {j \in 1..Len(rows) : rows[j].target_domain = d}}

\* add_subdomain run to completion: the row is appended unless one exists
WithSubdomain(rows, d, s, tool) ==
  IF SubdomainExists(rows, s) THEN rows ELSE Append(rows, NewSubdomain(d, s, tool))

\* update_subdomain_alive(hostname, True) run to completion
WithAlive(rows, h) ==
  [i \in 1..Len(rows) |->
     IF rows[i].subdomain = h THEN [rows[i] EXCEPT !.is_alive = TRUE] ELSE rows[i]]

\* add_crawled_url run to completion
WithCrawled(rows, d, u, tool) ==
  IF \E i \in 1..Len(rows) : rows[i].url = u THEN rows
  ELSE Append(rows, NewCrawledURL(d, u, tool))

InitScan ==
  /\ RepoAtRest
  /\ ScanAtRest
  /\ RestAtRest
  /\ active_scans = [id \in {} |-> <<>>]
  /\ proc = [h \in ToolNames |-> "none"]
  /\ termCalls = {}
  /\ signalled = {}
  /\ scanState = [id \in ScanIds |-> "new"]
  /\ task = [t \in Tasks |-> IdleTask]
  /\ ops = <<>>
  /\ cancelled = {}

\* run_scan_background / run_quick_scan_background: register_scan, then the
\* "Starting ... Scan" status
BackgroundStart(kind) ==
  /\ spc = "new"
  /\ skind' = kind
  /\ active_scans' = IF Registered(TheScan) THEN active_scans
                     ELSE active_scans @@ (TheScan :> <<>>)
  /\ scanState' = [scanState EXCEPT ![TheScan] = "running"]
  /\ events' = Append(events, "starting")
  /\ spc' = IF kind = "full" THEN "p1_start" ELSE "quick_start"
  /\ UNCHANGED <<proc, termCalls, signalled, task, ops, cancelled, crawled, ptask,
                 phases, repoVars, restVars>>

\* run_quick_scan: the "Starting Quick Scan" status
QuickScanRun ==
  /\ spc = "quick_start"
  /\ events' = Append(events, "quick_starting")
  /\ spc' = "quick_root"
  /\ UNCHANGED <<regVars, crawled, skind, ptask, phases, repoVars, restVars>>

\* run_quick_scan: `await repo.add_subdomain(...)` with no `repo` bound in the
\* function or the module raises NameError; the background task's
\* `except Exception` broadcasts "Scan failed: ..."
QuickScanNameError ==
  /\ spc = "quick_root"
  /\ events' = Append(events, "failed")
  /\ spc' = "finally"
  /\ UNCHANGED <<regVars, crawled, skind, ptask, phases, repoVars, restVars>>

\* run_subdomain_enumeration_phase: seed the root row, fan the three adapters
\* out through run_tasks_in_parallel
Phase1Start ==
  /\ spc = "p1_start"
  /\ subdomains' = WithSubdomain(subdomains, TheDomain, TheDomain, "Root")
  /\ phases' = Append(phases, "SubdomainEnum")
  /\ ptask' = [n \in ToolNames |->
                 IF n \in SubdomainProviders THEN "started" ELSE ptask[n]]
  /\ spc' = "p1_gather"
  /\ UNCHANGED <<regVars, crawled, skind, events, call, restVars>>

\* BaseProvider._run_command: the subprocess is created and returned; it is
\* not handed to the scan registry
ProviderLaunch(n) ==
  /\ n \in SubdomainProviders \cup {"HTTPX"}
  /\ ptask[n] = "started"
  /\ proc' = [proc EXCEPT ![n] = "running"]
  /\ ptask' = [ptask EXCEPT ![n] = "reading"]
  /\ UNCHANGED <<active_scans, termCalls, signalled, scanState, task, ops, cancelled,
                 crawled, spc, skind, events, phases, repoVars, restVars>>

\* an adapter raises (registry.get_provider: ValueError for an unregistered
\* name); run_task_wrapper logs it and returns None
ProviderRaise(n) ==
  /\ n \in SubdomainProviders
  /\ ptask[n] = "started"
  /\ ptask' = [ptask EXCEPT ![n] = "raised"]
  /\ UNCHANGED <<regVars, crawled, spc, skind, events, phases, repoVars, restVars>>

\* a subdomain provider yields a result: add_subdomain(target, name, provider)
ProviderResult(n, name) ==
  /\ n \in SubdomainProviders
  /\ ptask[n] = "reading"
  /\ proc[n] = "running"
  /\ subdomains' = WithSubdomain(subdomains, TheDomain, name, n)
  /\ UNCHANGED <<regVars, scanVars, call, restVars>>

\* readline() returns EOF, process.wait(), the stream and the adapter end
ProviderEOF(n) ==
  /\ n \in SubdomainProviders \cup {"HTTPX"}
  /\ ptask[n] = "reading"
  /\ proc[n] = "exited"
  /\ ptask' = [ptask EXCEPT ![n] = "done"]
  /\ UNCHANGED <<regVars, crawled, spc, skind, events, phases, repoVars, restVars>>

\* a subprocess of the scan exits, by itself or after a terminate signal,
\* while its runner lives to see it (the exit of a subprocess whose runner
\* was cancelled is seen by nobody: it stays "running")
ToolExit(n) ==
  /\ proc[n] = "running"
  /\ ptask[n] \in {"spawned", "reading"}
  /\ proc' = [proc EXCEPT ![n] = "exited"]
  /\ UNCHANGED <<active_scans, termCalls, signalled, scanState, task, ops, cancelled,
                 scanVars, repoVars, restVars>>

\* asyncio.wait_for(gather(...), timeout=process_timeout) expires: the
\* unfinished adapters are cancelled (their providers re-raise without
\* terminating the subprocess) and the batch returns []
Phase1Timeout ==
  /\ spc = "p1_gather"
  /\ \E n \in SubdomainProviders : ptask[n] \in Unfinished
  /\ ptask' = [n \in ToolNames |->
                 IF n \in SubdomainProviders /\ ptask[n] \in Unfinished
                   THEN "cancelled" ELSE ptask[n]]
  /\ spc' = "p2_start"
  /\ UNCHANGED <<regVars, crawled, skind, events, phases, repoVars, restVars>>

\* mutant: the phase does not wait for the adapters
Phase1Gathered_Early ==
  /\ spc = "p1_gather"
  /\ spc' = "p2_start"
  /\ UNCHANGED <<regVars, crawled, skind, ptask, events, phases, repoVars, restVars>>

\* gather returns: every adapter returned or raised
Phase1Gathered ==
  /\ spc = "p1_gather"
  /\ \A n \in SubdomainProviders : ptask[n] \in Settled
  /\ spc' = "p2_start"
  /\ UNCHANGED <<regVars, crawled, skind, ptask, events, phases, repoVars, restVars>>

\* run_host_discovery_phase: status, get_subdomains, run_httpx_adapter
Phase2Start ==
  /\ spc = "p2_start"
  /\ events' = Append(events, "phase2_start")
  /\ phases' = Append(phases, "HostDiscovery")
  /\ ptask' = [n \in ToolNames |->
                 IF n = "HTTPX" THEN "started"
                 ELSE IF n \in SubdomainProviders THEN "idle" ELSE ptask[n]]
  /\ proc' = Released(SubdomainProviders)
  /\ spc' = "p2_run"
  /\ UNCHANGED <<active_scans, termCalls, signalled, scanState, task, ops, cancelled,
                 crawled, skind, repoVars, restVars>>

\* run_httpx_adapter is awaited directly: an exception of the wrapper
\* (registry.get_provider: ValueError) leaves the phase chain and reaches the
\* background task, whose `except Exception` broadcasts "Scan failed: ..."
HttpxRaise ==
  /\ spc = "p2_run"
  /\ ptask["HTTPX"] = "started"
  /\ ptask' = [ptask EXCEPT !["HTTPX"] = "raised"]
  /\ events' = Append(events, "failed")
  /\ spc' = "finally"
  /\ UNCHANGED <<regVars, crawled, skind, phases, repoVars, restVars>>

\* HTTPX yields a result for a stored host: update_subdomain_alive(url, True)
HttpxResult(h) ==
  /\ ptask["HTTPX"] = "reading"
  /\ proc["HTTPX"] = "running"
  /\ SubdomainExists(subdomains, h)
  /\ subdomains' = WithAlive(subdomains, h)
  /\ UNCHANGED <<regVars, scanVars, call, restVars>>

\* "Phase 2 Complete", then run_crawling_phase (trigger_next_phase)
Phase2Done ==
  /\ spc = "p2_run"
  /\ ptask["HTTPX"] = "done"
  /\ events' = Append(events, "phase2_complete")
  /\ spc' = "p3_start"
  /\ UNCHANGED <<regVars, crawled, skind, ptask, phases, repoVars, restVars>>

\* run_crawling_phase: status, get_alive_subdomains, Katana only if a host is
\* alive, GAU always, asyncio.gather
Phase3Start ==
  /\ spc = "p3_start"
  /\ events' = Append(events, "phase3_start")
  /\ phases' = Append(phases, "Crawling")
  /\ ptask' = [ptask EXCEPT
                 !["HTTPX"] = "idle",
                 !["Katana"] = IF AliveSubdomains(subdomains, TheDomain) # {}
                                 THEN "started" ELSE "skipped",
                 !["GAU"] = "started"]
  /\ proc' = Released({"HTTPX"})
  /\ spc' = "p3_gather"
  /\ UNCHANGED <<active_scans, termCalls, signalled, scanState, task, ops, cancelled,
                 crawled, skind, repoVars, restVars>>

\* run_katana / run_gau / run_nuclei: create_subprocess_shell
RunnerSpawn(n) ==
  /\ n \in LegacyRunners
  /\ ptask[n] = "started"
  /\ proc' = [proc EXCEPT ![n] = "running"]
  /\ ptask' = [ptask EXCEPT ![n] = "spawned"]
  /\ UNCHANGED <<active_scans, termCalls, signalled, scanState, task, ops, cancelled,
                 crawled, spc, skind, events, phases, repoVars, restVars>>

\* run_katana / run_gau: the launch fails; `except Exception` prints the
\* error on the server console and the runner returns None
RunnerRaise(n) ==
  /\ n \in {"Katana", "GAU"}
  /\ ptask[n] = "started"
  /\ ptask' = [ptask EXCEPT ![n] = "raised"]
  /\ UNCHANGED <<regVars, crawled, spc, skind, events, phases, repoVars, restVars>>

\* if scan_id: registry.add_process(scan_id, process)
RunnerAddProcess(n) ==
  /\ n \in LegacyRunners
  /\ ptask[n] = "spawned"
  /\ active_scans' = AfterAddProcess(TheScan, n)
  /\ ptask' = [ptask EXCEPT ![n] = "reading"]
  /\ UNCHANGED <<proc, termCalls, signalled, scanState, task, ops, cancelled,
                 crawled, spc, skind, events, phases, repoVars, restVars>>

\* process_stream: a crawler prints a URL, add_crawled_url
CrawlerResult(n, u) ==
  /\ n \in {"Katana", "GAU"}
  /\ ptask[n] = "reading"
  /\ proc[n] = "running"
  /\ crawled' = WithCrawled(crawled, TheDomain, u, n)
  /\ UNCHANGED <<regVars, spc, skind, ptask, events, phases, repoVars, restVars>>

\* run_nuclei: a line that decodes as JSON is stored with
\* async_add_vulnerability, whatever fields it carries
NucleiResult(f) ==
  /\ ptask["Nuclei"] = "reading"
  /\ proc["Nuclei"] = "running"
  /\ vulns' = WithVulnerability(vulns, TheDomain, LegacyFindingName(f), f.matched,
                                f.matcher)
  /\ UNCHANGED <<regVars, scanVars, repoVars, tmVars, rlVars, providers,
                 has_callback, wrap, sub_events, emitted, extraVars>>

\* EOF and process.wait(): the runner returns; run_nuclei first broadcasts
\* its "Nuclei scan complete" status
RunnerEOF(n) ==
  /\ n \in LegacyRunners
  /\ ptask[n] = "reading"
  /\ proc[n] = "exited"
  /\ ptask' = [ptask EXCEPT ![n] = "done"]
  /\ events' = IF n = "Nuclei" THEN Append(events, "nuclei_complete") ELSE events
  /\ UNCHANGED <<regVars, crawled, spc, skind, phases, repoVars, restVars>>

\* gather returns, "Phase 3 Complete", then run_vuln_scanning_phase
Phase3Done ==
  /\ spc = "p3_gather"
  /\ \A n \in {"Katana", "GAU"} : ptask[n] \in Settled
  /\ events' = Append(events, "phase3_complete")
  /\ spc' = "p5_start"
  /\ UNCHANGED <<regVars, crawled, skind, ptask, phases, repoVars, restVars>>

\* run_vuln_scanning_phase: status, targets from the alive hosts and the
\* crawled URLs, run_nuclei (which returns at once without targets)
Phase5Start ==
  /\ spc = "p5_start"
  /\ phases' = Append(phases, "VulnScan")
  /\ IF AliveSubdomains(subdomains, TheDomain) \cup CrawledUrls(crawled, TheDomain) = {}
       THEN /\ ptask' = [ptask EXCEPT !["Katana"] = "idle", !["GAU"] = "idle",
                                      !["Nuclei"] = "skipped"]
            /\ events' = Append(events, "phase5_start")
       ELSE /\ ptask' = [ptask EXCEPT !["Katana"] = "idle", !["GAU"] = "idle",
                                      !["Nuclei"] = "started"]
            /\ events' = events \o <<"phase5_start", "nuclei_start">>
  /\ proc' = Released({"Katana", "GAU"})
  /\ spc' = "p5_run"
  /\ UNCHANGED <<active_scans, termCalls, signalled, scanState, task, ops, cancelled,
                 crawled, skind, repoVars, restVars>>

\* "Phase 5 Complete"; the phase chain returns to the background task
Phase5Done ==
  /\ spc = "p5_run"
  /\ ptask["Nuclei"] \in Settled
  /\ events' = Append(events, "phase5_complete")
  /\ spc' = "completing"
  /\ UNCHANGED <<regVars, crawled, skind, ptask, phases, repoVars, restVars>>

\* "Full Scan complete for ..."
ScanComplete ==
  /\ spc = "completing"
  /\ events' = Append(events, "complete")
  /\ spc' = "finally"
  /\ UNCHANGED <<regVars, crawled, skind, ptask, phases, repoVars, restVars>>

\* mutant: the background task ends without remove_scan
BackgroundFinally_NoRemove ==
  /\ spc = "finally"
  /\ scanState' = [scanState EXCEPT ![TheScan] = "ended"]
  /\ spc' = "ended"
  /\ UNCHANGED <<active_scans, proc, termCalls, signalled, task, ops, cancelled,
                 crawled, skind, ptask, events, phases, repoVars, restVars>>

\* finally: registry.remove_scan(scan_id).  (The `except
\* asyncio.CancelledError` arm needs somebody to cancel the background task;
\* no operation of the application does, cancel_scan included.)
BackgroundFinally ==
  /\ spc = "finally"
  /\ active_scans' = IF Registered(TheScan) THEN Without(TheScan) ELSE active_scans
  /\ scanState' = [scanState EXCEPT ![TheScan] = "ended"]
  /\ spc' = "ended"
  /\ UNCHANGED <<proc, termCalls, signalled, task, ops, cancelled, crawled, skind,
                 ptask, events, phases, repoVars, restVars>>

\* POST /cancel-scan/{scan_id}: registry.cancel_scan, and on success the
\* "aborted by user" status (404 otherwise)
EndpointCancel(id) ==
  /\ CancelScanBody(id)
  /\ events' = IF Registered(id) THEN Append(events, "aborted") ELSE events
  /\ UNCHANGED <<proc, scanState, task, ops, crawled, spc, skind, ptask, phases,
                 repoVars, restVars>>

NextScan ==
  \/ \E kind \in {"full", "quick"} : BackgroundStart(kind)
  \/ QuickScanRun
  \/ QuickScanNameError
  \/ Phase1Start
  \/ \E n \in ToolNames : ProviderLaunch(n)
  \/ \E n \in ToolNames : ProviderRaise(n)
  \/ \E n \in ToolNames, name \in ScanNames : ProviderResult(n, name)
  \/ \E n \in ToolNames : ProviderEOF(n)
  \/ \E n \in ToolNames : ToolExit(n)
  \/ Phase1Timeout
  \/ Phase1Gathered
  \/ Phase2Start
  \/ HttpxRaise
  \/ \E h \in ScanNames \cup {TheDomain} : HttpxResult(h)
  \/ Phase2Done
  \/ Phase3Start
  \/ \E n \in ToolNames : RunnerSpawn(n)
  \/ \E n \in ToolNames : RunnerRaise(n)
  \/ \E n \in ToolNames : RunnerAddProcess(n)
  \/ \E n \in ToolNames, u \in CrawlUrls : CrawlerResult(n, u)
  \/ \E f \in ScanFindings : NucleiResult(f)
  \/ \E n \in ToolNames : RunnerEOF(n)
  \/ Phase3Done
  \/ Phase5Start
  \/ Phase5Done
  \/ ScanComplete
  \/ BackgroundFinally
  \/ \E id \in ScanIds : EndpointCancel(id)

SpecScan == InitScan /\ [][NextScan]_vars

TerminalEvents == {i \in 1..Len(events) : events[i] \in TerminalStatus}

\* C4: once cancel_scan(id) has returned True for the running scan, the
\* orchestrator starts no further phase and spawns no further subprocess
C4_NoPhaseAfterCancel ==
  [][(TheScan \in cancelled) =>
        /\ phases' = phases
        /\ \A n \in ToolNames : proc'[n] = "running" => proc[n] = "running"]_vars

\* C5: a scan broadcasts one terminating status (complete, cancelled or
\* failed) and never a second one, also with a concurrent cancel_scan
C5_OneTerminalStatus ==
  /\ Cardinality(TerminalEvents) <= 1
  /\ spc = "ended" => Cardinality(TerminalEvents) = 1

\* the tools a phase fans out to
PhaseTools(ph) ==
  CASE ph = "SubdomainEnum" -> SubdomainProviders
    [] ph = "HostDiscovery" -> {"HTTPX"}
    [] ph = "Crawling" -> {"Katana", "GAU"}
    [] ph = "VulnScan" -> {"Nuclei"}

PhaseOrder == <<"SubdomainEnum", "HostDiscovery", "Crawling", "VulnScan">>

C14_PhaseOnlyForward ==
  [][/\ \/ phases' = phases
        \/ /\ Len(phases) < Len(PhaseOrder)
           /\ phases' = Append(phases, PhaseOrder[Len(phases) + 1])
     /\ (TheScan \in cancelled) => phases' = phases]_vars

\* the scan has started and has not ended with a terminal status
Live == (\E i \in 1..Len(events) : events[i] = "starting") /\ TerminalEvents = {}

\* C15: cancel_scan(id) returns true exactly when the scan is live, and
\* when it returns true every live subprocess of the scan was sent a
\* terminate signal
C15_CancelTrueIffLive ==
  /\ [](Live <=> Registered(TheScan))
  /\ [][(cancelled' # cancelled) =>
          \A n \in ToolNames : proc[n] = "running" => n \in signalled']_vars

\* C17: every subprocess a provider has spawned in stream_output for a
\* registered scan id is tracked by the registry under that id
C17_ProviderProcessTracked ==
  \A n \in SubdomainProviders \cup {"HTTPX"} :
    (ptask[n] = "reading" /\ proc[n] = "running" /\ Registered(TheScan))
      => n \in Tracked(TheScan)

\* the registry holds only the id of a scan whose background task runs
OnlyRunningRegistered ==
  \A id \in DOMAIN active_scans : id = TheScan /\ spc \notin {"new", "ended"}

C24_QuickScanPath ==
  (skind = "quick" /\ spc \in {"finally", "ended"}) =>
     /\ phases = <<"SubdomainEnum", "HostDiscovery", "VulnScan">>
     /\ \E i \in 1..Len(events) : events[i] = "quick_complete"

\* C26: once cancel_scan has returned true for the scan no 'complete'
\* status is broadcast for it, and when its background task has ended the
\* last status event is the cancelled one
C26_CancelledIsLastStatus ==
  /\ [][(TheScan \in cancelled /\ events' # events) =>
          events'[Len(events')] # "complete"]_vars
  /\ []((TheScan \in cancelled /\ spc = "ended") =>
          events[Len(events)] \in {"cancelled", "aborted"})

\* the provider invocations the scan has started
StartedInvocations ==
  {n \in SubdomainProviders \cup {"HTTPX", "Nuclei"} :
     ptask[n] \in {"reading", "done", "cancelled"} \/ proc[n] # "none"}

\* the acquire calls on the target's key that returned true
GrantedAcquires ==
  {c \in RLCallers : /\ rlCall[c].pc = "done" /\ rlCall[c].ret = "True"
                     /\ rlCall[c].key \in RLKeys}

\* C29: a provider invocation is started only after an acquire on its
\* target's key has returned true: there are never more invocations started
\* than acquire calls granted
C29_InvocationAfterAcquire ==
  Cardinality(StartedInvocations) <= Cardinality(GrantedAcquires)

\* C33: an error that ends a tool's task during a phase is surfaced as a
\* status event: the scan does not start the next phase after such an error
\* without a status reporting it
C33_PhaseErrorHasStatus ==
  [][(Len(phases') > Len(phases) /\ \E n \in ToolNames : ptask[n] = "raised")
       => \E i \in 1..Len(events) : events[i] = "failed"]_vars

\* C34: when the subdomain-enumeration fan-out exceeds its deadline, a status
\* reporting the timeout is emitted, and host discovery is what comes next
C34_TimeoutHasStatus ==
  (\E n \in SubdomainProviders : ptask[n] = "cancelled") =>
     /\ spc = "p2_start"
     /\ \E i \in 1..Len(events) : events[i] = "timeout"

\* C36: a Vulnerability row is created only for a result that carries a
\* finding name
C36_RowOnlyForNamedFinding ==
  \A i \in 1..Len(vulns) :
    \E f \in NucleiFindings : f.name # "" /\ vulns[i].name = f.name

(***************************************************************************)
(* SpecTM: Task Manager, run_tasks_in_parallel                              *)
(***************************************************************************)
\* lists of at most MaxListLen values
ListsUpTo(n) == UNION {[1..k -> Vals] : k \in 0..n}

PyList(items) == [kind |-> "list", items |-> items]

PyScalar(v) == [kind |-> "scalar", items |-> <<v>>]

\* what a task may return: None, a list, or a single value
TaskResults ==
  {PyNone} \cup {PyList(l) : l \in ListsUpTo(MaxListLen)} \cup {PyScalar(v) : v \in Vals}

\* `if r`: None and the empty list are falsy
Truthy(r) == r.kind # "None" /\ ~(r.kind = "list" /\ r.items = <<>>)

\* flat_results: lists are extended, other values appended; both contribute
\* their items
RECURSIVE Flatten(_, _)
Flatten(results, i) ==
  IF i > NumTMTasks THEN <<>>
  ELSE (IF Truthy(results[i]) THEN results[i].items ELSE <<>>) \o Flatten(results, i + 1)

RECURSIVE SortedSeq(_)
SortedSeq(S) ==
  IF S = {} THEN <<>>
  ELSE LET m == CHOOSE x \in S : \A y \in S : x <= y
       IN  <<m>> \o SortedSeq(S \ {m})

\* mutant: the flattened list is returned as it is
UniqueResults_Unsorted(results) == Flatten(results, 1)

\* sorted(list(set(flat_results)))
UniqueResults(results) == SortedSeq(Range(Flatten(results, 1)))

\* mutant: the timeout branch keeps what the finished tasks returned
TimeoutReturn_Partial(results) == UniqueResults(results)

\* except asyncio.TimeoutError: results = []; return []
TimeoutReturn(results) == <<>>

InitTM ==
  /\ tmState = [i \in TMTasks |-> "running"]
  /\ tmResult = [i \in TMTasks |-> PyNone]
  /\ tmDeadline \in BOOLEAN
  /\ tmPc = "gather"
  /\ tmOutcome = "-"
  /\ tmRet = <<>>
  /\ RepoAtRest
  /\ RegAtRest
  /\ ScanAtRest
  /\ RLAtRest
  /\ WrapAtRest
  /\ ExtraAtRest

\* a task returns r to run_task_wrapper
TMTaskReturn(i, r) ==
  /\ tmState[i] = "running"
  /\ tmState' = [tmState EXCEPT ![i] = "returned"]
  /\ tmResult' = [tmResult EXCEPT ![i] = r]
  /\ UNCHANGED <<tmDeadline, tmPc, tmOutcome, tmRet, notTM>>

\* mutant: the exception of one task cancels the tasks still running
TMTaskRaise_Abort(i) ==
  /\ tmState[i] = "running"
  /\ tmState' = [j \in TMTasks |->
                   IF j = i THEN "raised"
                   ELSE IF tmState[j] = "running" THEN "cancelled" ELSE tmState[j]]
  /\ tmResult' = [tmResult EXCEPT ![i] = PyNone]
  /\ UNCHANGED <<tmDeadline, tmPc, tmOutcome, tmRet, notTM>>

\* a task raises: run_task_wrapper prints the error and returns None
TMTaskRaise(i) ==
  /\ tmState[i] = "running"
  /\ tmState' = [tmState EXCEPT ![i] = "raised"]
  /\ tmResult' = [tmResult EXCEPT ![i] = PyNone]
  /\ UNCHANGED <<tmDeadline, tmPc, tmOutcome, tmRet, notTM>>

\* wait_for's deadline passes with a task still running: the gather and its
\* coroutines are cancelled, TimeoutError is caught.  A running task that is
\* a plain function in the executor (the set sync) cannot be cancelled and
\* runs on, detached
TMTimeout(sync) ==
  /\ tmPc = "gather"
  /\ tmDeadline
  /\ \E i \in TMTasks : tmState[i] = "running"
  /\ sync \subseteq {i \in TMTasks : tmState[i] = "running"}
  /\ tmState' = [i \in TMTasks |->
                   IF tmState[i] # "running" THEN tmState[i]
                   ELSE IF i \in sync THEN "detached" ELSE "cancelled"]
  /\ tmRet' = TimeoutReturn(tmResult)
  /\ tmOutcome' = "timeout"
  /\ tmPc' = "returned"
  /\ UNCHANGED <<tmResult, tmDeadline, notTM>>

\* gather returns: filter, flatten, dedup and sort
TMGathered ==
  /\ tmPc = "gather"
  /\ \A i \in TMTasks : tmState[i] # "running"
  /\ tmRet' = UniqueResults(tmResult)
  /\ tmOutcome' = "ok"
  /\ tmPc' = "returned"
  /\ UNCHANGED <<tmState, tmResult, tmDeadline, notTM>>

\* a detached executor function ends after the batch was abandoned; its
\* value goes nowhere
TMDetachedEnds(i) ==
  /\ tmState[i] = "detached"
  /\ tmState' = [tmState EXCEPT ![i] = "discarded"]
  /\ UNCHANGED <<tmResult, tmDeadline, tmPc, tmOutcome, tmRet, notTM>>

NextTM ==
  \/ \E i \in TMTasks, r \in TaskResults : TMTaskReturn(i, r)
  \/ \E i \in TMTasks : TMTaskRaise(i)
  \/ \E sync \in SUBSET TMTasks : TMTimeout(sync)
  \/ TMGathered
  \/ \E i \in TMTasks : TMDetachedEnds(i)

SpecTM == InitTM /\ [][NextTM]_vars

\* C6: when the deadline passes with a task still running, the call returns
\* the timeout outcome with no result at all, whatever the siblings that
\* finished before the deadline returned
C6_TimeoutReturnsNothing ==
  tmOutcome = "timeout" => tmRet = <<>>

\* the batch timed out on a slow task after a sibling had returned a
\* non-empty list
C6_Witness ==
  /\ tmOutcome = "timeout"
  /\ \E i \in TMTasks : tmState[i] = "cancelled"
  /\ \E i \in TMTasks : tmState[i] = "returned" /\ tmResult[i].kind = "list"
                         /\ Len(tmResult[i].items) = MaxListLen

\* the values the tasks that returned handed back
ReturnedValues ==
  UNION {Range(tmResult[j].items) : j \in {k \in TMTasks : tmState[k] = "returned"}}

\* C18: a task that raises leaves every sibling's state and result as they
\* were and does not end the batch; when gather then returns, the call
\* returns exactly the values of the tasks that returned, the raising task
\* contributing none
C18_RaiseIsIsolated ==
  /\ [][\A i \in TMTasks :
          (tmState[i] = "running" /\ tmState'[i] = "raised") =>
             /\ \A j \in TMTasks \ {i} :
                  tmState'[j] = tmState[j] /\ tmResult'[j] = tmResult[j]
             /\ tmPc' = tmPc /\ tmOutcome' = tmOutcome /\ tmRet' = tmRet]_vars
  /\ []((tmOutcome = "ok" /\ \E i \in TMTasks : tmState[i] = "raised") =>
          /\ \A i \in TMTasks : tmState[i] = "raised" => ~Truthy(tmResult[i])
          /\ \A j \in TMTasks : tmState[j] \in {"returned", "raised"}
          /\ Range(tmRet) = ReturnedValues)

\* one task raised, its siblings returned values, and the call returned them
C18_Witness ==
  /\ tmOutcome = "ok"
  /\ \E i \in TMTasks :
       /\ tmState[i] = "raised"
       /\ \A j \in TMTasks \ {i} : tmState[j] = "returned" /\ Truthy(tmResult[j])
  /\ Range(tmRet) = Vals

\* the orders in which the same tasks can stand in the task list
TaskOrders == {p \in [TMTasks -> TMTasks] : \A i, j \in TMTasks : p[i] = p[j] => i = j}

\* C19: the list returned after gather holds no value twice, holds exactly
\* the values the tasks returned, and is the same list for every order of
\* the task list
C19_DedupOrderIndependent ==
  tmOutcome = "ok" =>
    /\ \A i, j \in 1..Len(tmRet) : tmRet[i] = tmRet[j] => i = j
    /\ Range(tmRet) = UNION {Range(tmResult[k].items) : k \in TMTasks}
    /\ \A p \in TaskOrders :
         UniqueResults([i \in TMTasks |-> tmResult[p[i]]]) = tmRet

\* two tasks returned the same value, a third the values in descending
\* order, and the call returned each value once
C19_Witness ==
  /\ tmOutcome = "ok"
  /\ \E i, j \in TMTasks :
       /\ i # j
       /\ Truthy(tmResult[i]) /\ Truthy(tmResult[j])
       /\ Range(tmResult[i].items) \cap Range(tmResult[j].items) # {}
  /\ \E i \in TMTasks :
       /\ tmResult[i].kind = "list" /\ Len(tmResult[i].items) > 1
       /\ tmResult[i].items[1] > tmResult[i].items[2]
  /\ Len(tmRet) = Cardinality(Vals)

(***************************************************************************)
(* SpecRL: RedisRateLimiter.acquire, a fixed window counted in Redis        *)
(***************************************************************************)
InitRL ==
  /\ rlLimit \in 1..MaxLimit
  /\ rlNow = 0
  /\ rlCount = [k \in AllRLKeys |-> [w \in Windows |-> 0]]
  /\ rlTTL = {}
  /\ rlCall = [c \in RLCallers |-> IdleAcquire]
  /\ rlHits = [k \in AllRLKeys |-> [w \in Windows |-> {}]]
  /\ rlGranted = [k \in AllRLKeys |-> [w \in Windows |-> {}]]
  /\ RepoAtRest
  /\ RegAtRest
  /\ ScanAtRest
  /\ TMAtRest
  /\ WrapAtRest
  /\ ExtraAtRest

\* mutant: the comparison lets one more call through
Allowed_OneMore(current, limit) == current <= limit + 1

\* if current <= limit: return True
Allowed(current, limit) == current <= limit

\* mutant: every key counts in the same Redis key
WindowKey_NoKey(key, ts) == <<CHOOSE k \in RLKeys : TRUE, ts>>

\* window_key = f"rl:{key}:{ts}": the counter a call increments
WindowKey(key, ts) == <<key, ts>>

\* mutant: a caller that polls is let through when it is refused
AfterCount_PollerPasses(acq, current) ==
  IF Allowed(current, rlLimit) \/ acq.block THEN [acq EXCEPT !.pc = "done", !.ret = "True"]
  ELSE [acq EXCEPT !.pc = "done", !.ret = "False"]

\* the caller's state after the code that follows the counter value: return
\* True, return False when not blocking, else sleep and retry
AfterCount(acq, current) ==
  IF Allowed(current, rlLimit) THEN [acq EXCEPT !.pc = "done", !.ret = "True"]
  ELSE IF ~acq.block THEN [acq EXCEPT !.pc = "done", !.ret = "False"]
  ELSE [acq EXCEPT !.pc = "sleep"]

\* acquire(key, limit, period, block) is called; get_redis is awaited
RLAcquire(c, k, b) ==
  /\ rlCall[c].pc = "idle"
  /\ rlCall' = [rlCall EXCEPT ![c] = [@ EXCEPT !.pc = "window", !.key = k, !.block = b,
                                              !.called = -1]]
  /\ UNCHANGED <<rlLimit, rlNow, rlCount, rlTTL, rlHits, rlGranted, notRL>>

\* ts = int(time.time() / period); window_key = f"rl:{key}:{ts}".  The
\* window of the first turn of the loop is kept in `called`
RLWindowKey(c) ==
  /\ rlCall[c].pc = "window"
  /\ rlCall' = [rlCall EXCEPT ![c] =
                  [@ EXCEPT !.pc = "incr", !.ts = rlNow,
                            !.called = IF @ < 0 THEN rlNow ELSE @]]
  /\ UNCHANGED <<rlLimit, rlNow, rlCount, rlTTL, rlHits, rlGranted, notRL>>

\* current = await r.incr(window_key): atomic in Redis.  A value above 1
\* leads straight to the comparison; 1 leads to the expire call first
RLIncr(c) ==
  LET k == WindowKey(rlCall[c].key, rlCall[c].ts)[1]
      w == WindowKey(rlCall[c].key, rlCall[c].ts)[2]
      current == rlCount[k][w] + 1
      after == IF current = 1 THEN [rlCall[c] EXCEPT !.pc = "expire"]
               ELSE AfterCount(rlCall[c], current)
  IN  /\ rlCall[c].pc = "incr"
      /\ current <= MaxCount
      /\ rlCount' = [rlCount EXCEPT ![k][w] = current]
      /\ rlHits' = IF rlCall[c].block THEN rlHits
                   ELSE [rlHits EXCEPT ![k][w] = @ \cup {c}]
      /\ rlCall' = [rlCall EXCEPT ![c] = after]
      /\ rlGranted' = IF after.pc = "done" /\ after.ret = "True"
                        THEN [rlGranted EXCEPT ![k][w] = @ \cup {c}]
                        ELSE rlGranted
      /\ UNCHANGED <<rlLimit, rlNow, rlTTL, notRL>>

\* await r.expire(window_key, period + 1), then the comparison with current = 1
RLExpire(c) ==
  LET k == WindowKey(rlCall[c].key, rlCall[c].ts)[1]
      w == WindowKey(rlCall[c].key, rlCall[c].ts)[2]
      after == AfterCount(rlCall[c], 1)
  IN  /\ rlCall[c].pc = "expire"
      /\ rlTTL' = IF rlCount[k][w] > 0 THEN rlTTL \cup {<<k, w>>} ELSE rlTTL
      /\ rlCall' = [rlCall EXCEPT ![c] = after]
      /\ rlGranted' = IF after.pc = "done" /\ after.ret = "True"
                        THEN [rlGranted EXCEPT ![k][w] = @ \cup {c}]
                        ELSE rlGranted
      /\ UNCHANGED <<rlLimit, rlNow, rlCount, rlHits, notRL>>

\* await asyncio.sleep(0.1) ends: next turn of the loop
RLWake(c) ==
  /\ rlCall[c].pc = "sleep"
  /\ rlCall' = [rlCall EXCEPT ![c] = [@ EXCEPT !.pc = "window"]]
  /\ UNCHANGED <<rlLimit, rlNow, rlCount, rlTTL, rlHits, rlGranted, notRL>>

\* the clock enters the next window
RLTick ==
  /\ rlNow + 1 \in Windows
  /\ rlNow' = rlNow + 1
  /\ UNCHANGED <<rlLimit, rlCount, rlTTL, rlCall, rlHits, rlGranted, notRL>>

\* Redis drops a window key period + 1 seconds after its expire call, which
\* is after the window has ended
RLKeyExpires(k, w) ==
  /\ <<k, w>> \in rlTTL
  /\ rlNow > w
  /\ rlCount' = [rlCount EXCEPT ![k][w] = 0]
  /\ rlTTL' = rlTTL \ {<<k, w>>}
  /\ rlHits' = [rlHits EXCEPT ![k][w] = {}]
  /\ rlGranted' = [rlGranted EXCEPT ![k][w] = {}]
  /\ UNCHANGED <<rlLimit, rlNow, rlCall, notRL>>

NextRL ==
  \/ \E c \in RLCallers, k \in RLKeys, b \in BOOLEAN : RLAcquire(c, k, b)
  \/ \E c \in RLCallers : RLWindowKey(c)
  \/ \E c \in RLCallers : RLIncr(c)
  \/ \E c \in RLCallers : RLExpire(c)
  \/ \E c \in RLCallers : RLWake(c)
  \/ RLTick
  \/ \E k \in RLKeys, w \in Windows : RLKeyExpires(k, w)

SpecRL == InitRL /\ [][NextRL]_vars

\* the non-blocking calls on window counter (k, w) that have returned ret
ReturnedWith(k, w, ret) ==
  {c \in rlHits[k][w] : rlCall[c].pc = "done" /\ rlCall[c].ret = ret}

\* limit + 1 non-blocking calls, and nothing else, incremented the counter
\* of window w of key k, and all of them have returned
OneWindowBurst(k, w) ==
  /\ Cardinality(rlHits[k][w]) = rlLimit + 1
  /\ rlCount[k][w] = rlLimit + 1
  /\ \A c \in rlHits[k][w] : rlCall[c].pc = "done"

\* C7: limit + 1 concurrent non-blocking acquire calls on one key within one
\* window give exactly limit calls returning true and one returning false,
\* in whatever order their increments reach Redis
C7_BurstAdmitsLimit ==
  \A k \in RLKeys, w \in Windows :
    OneWindowBurst(k, w) =>
      /\ Cardinality(ReturnedWith(k, w, "True")) = rlLimit
      /\ Cardinality(ReturnedWith(k, w, "False")) = 1

\* a burst of MaxLimit + 1 calls on one key has completed
C7_Witness ==
  /\ rlLimit = MaxLimit
  /\ \E k \in RLKeys, w \in Windows : OneWindowBurst(k, w)

\* C27: a blocking acquire returns true no later than the window after the
\* one it was called in: a blocking caller is never refused by the counter
\* of a window later than the one in which it made its first attempt
C27_GrantedByNextWindow ==
  \A c \in RLCallers :
    (rlCall[c].block /\ rlCall[c].pc = "sleep") => rlCall[c].ts = rlCall[c].called

\* the calls on key k that counted themselves in window w and returned true
GrantedIn(k, w) ==
  {c \in RLCallers : /\ rlCall[c].pc = "done" /\ rlCall[c].ret = "True"
                     /\ rlCall[c].key = k /\ rlCall[c].ts = w}

KeyFor(c) ==
  IF c = NumRLCallers THEN CHOOSE k \in AllRLKeys : k \notin RLKeys
  ELSE CHOOSE k \in RLKeys : TRUE

\* acquire calls on the keys of two targets, interleaved
NextRLKeys ==
  \/ \E c \in RLCallers, b \in BOOLEAN : RLAcquire(c, KeyFor(c), b)
  \/ \E c \in RLCallers : RLWindowKey(c)
  \/ \E c \in RLCallers : RLIncr(c)
  \/ \E c \in RLCallers : RLExpire(c)
  \/ \E c \in RLCallers : RLWake(c)
  \/ RLTick
  \/ \E k \in AllRLKeys, w \in Windows : RLKeyExpires(k, w)

SpecRLKeys == InitRL /\ [][NextRLKeys]_vars

\* the Redis state kept for key k: its window counters and their expiries
KeyState(k) == <<rlCount[k], {e \in rlTTL : e[1] = k}>>

\* C25: a step of an acquire call on one key leaves the counters and
\* expiries of every other key as they were, and the outcome of a call is
\* decided by the counter of its own key alone: the value its increment
\* returns is one more than that counter held, and it is let through exactly
\* when that value is within the limit
C25_KeysDoNotInterfere ==
  [][\A c \in RLCallers :
       rlCall'[c] # rlCall[c] =>
         LET k == rlCall'[c].key
             w == rlCall'[c].ts
         IN  /\ \A k2 \in AllRLKeys \ {k} : KeyState(k2)' = KeyState(k2)
             /\ rlCall[c].pc = "incr" =>
                  /\ rlCount'[k][w] = rlCount[k][w] + 1
                  /\ rlCount'[k][w] > rlLimit =>
                       ~(rlCall'[c].pc = "done" /\ rlCall'[c].ret = "True")
                  /\ (rlCount'[k][w] > 1 /\ rlCount'[k][w] <= rlLimit) =>
                       (rlCall'[c].pc = "done" /\ rlCall'[c].ret = "True")
             /\ rlCall[c].pc = "expire" =>
                  (rlCall'[c].pc = "done" /\ rlCall'[c].ret = "True")]_vars

\* in one window the counter of one key is past the limit and has refused
\* a call, while a call on the other key was let through by its own counter
C25_Witness ==
  \E k1, k2 \in AllRLKeys, w \in Windows :
    /\ k1 # k2
    /\ rlCount[k1][w] > rlLimit
    /\ \E c \in RLCallers : /\ rlCall[c].key = k1 /\ rlCall[c].ts = w
                            /\ rlCall[c].pc = "done" /\ rlCall[c].ret = "False"
    /\ rlCount[k2][w] > 0
    /\ rlCount[k2][w] <= rlLimit
    /\ rlGranted[k2][w] # {}
    /\ rlGranted[k1][w] # {}

(***************************************************************************)
(* SpecWrap: concurrent run_provider_wrapper calls consuming provider       *)
(* streams and persisting through the repository                            *)
(***************************************************************************)
\* the provider names the wrappers are called with
WrapProviders == {"Subfinder", "HTTPX", "Katana", "Nuclei"}

\* (target, root_domain) a wrapper is called with: a domain and no
\* root_domain, or the URL of one asset with or without root_domain
WrapArgs ==
  { <<"example.org", "None">>,
    <<"http://a.example.com", "example.com">>,
    <<"http://a.example.com", "None">> }

\* rows in the table when the wrappers start
WrapSeedRows == {<<>>, <<NewSubdomain("example.com", "b.example.com", "Root")>>}

\* "://" in target
SchemeInTarget(t) == t = "http://a.example.com"

\* db_target_domain when no NameError is raised on the way
DbTargetDomain(t, root) == IF root # "None" THEN root ELSE t

\* a URL is the sequence of its parts: scheme prefix, host, "/", path segment
MakeUrl(scheme, host, path) == <<scheme, host>> \o path

Schemes == {"http://", "https://"}

Paths == {<<>>, <<"/", "login">>}

\* str.replace(tok, "")
Remove(url, tok) == SelectSeq(url, LAMBDA x : x # tok)

\* str.split(tok)[0]
BeforeFirst(url, tok) ==
  LET at == {i \in 1..Len(url) : url[i] = tok}
  IN  IF at = {} THEN url
      ELSE SubSeq(url, 1, (CHOOSE i \in at : \A j \in at : i <= j) - 1)

\* mutant: the path is not cut off
Hostname_NoSplit(url) == Remove(Remove(url, "https://"), "http://")

\* subdomain.replace("https://", "").replace("http://", "").split("/")[0]
Hostname(url) == BeforeFirst(Remove(Remove(url, "https://"), "http://"), "/")

\* filter_by(subdomain=hostname)
HostnameRows(rows, hostname) ==
  {i \in 1..Len(rows) : <<rows[i].subdomain>> = hostname}

HttpxUrls ==
  { MakeUrl("http://", "a.example.com", <<>>),
    MakeUrl("https://", "b.example.com", <<"/", "login">>),
    <<>> }

\* what a provider's tool can print on a line
ProviderData(p) ==
  IF p \in SubdomainProviders THEN {[NoData EXCEPT !.subdomain = s] : s \in Names}
  ELSE IF p = "HTTPX" THEN {[NoData EXCEPT !.url = u] : u \in HttpxUrls}
  ELSE IF p = "Katana" THEN {[NoData EXCEPT !.endpoint = e] : e \in CrawlUrls \cup {""}}
  ELSE NucleiFindings

\* mutant: the event is sent for every handled name
BroadcastsIsNew_Always(is_new, callback) == callback

\* if is_new and broadcast_callback
BroadcastsIsNew(is_new, callback) == is_new /\ callback

\* the result being handled: results[-1]
Current(w) == wrap[w].results[Len(wrap[w].results)]

\* where a result event leads, by provider_name
AfterResult(p, data) ==
  IF p \in SubdomainProviders THEN "sub_select"
  ELSE IF p = "HTTPX" THEN (IF data.url # <<>> THEN "alive_select" ELSE "next")
  ELSE IF p = "Katana" THEN (IF data.endpoint # "" THEN "crawl_select" ELSE "next")
  ELSE IF p = "Nuclei"
    THEN (IF data.name # "" /\ data.matched # "" THEN "vuln_select" ELSE "next")
  ELSE "next"

\* the Celery task that runs the wrapper for a provider
TaskOf(p) ==
  CASE p \in SubdomainProviders -> "task_run_provider"
    [] p = "HTTPX" -> "task_host_discovery"
    [] p = "Katana" -> "task_crawling"
    [] OTHER -> "task_vuln_scan"

\* what a job's broadcast_to_redis is called with
CallbackEvent(type, data, is_new) ==
  [type |-> type, subdomain |-> data.subdomain, url |-> data.url, is_new |-> is_new]

\* the if/elif on item["type"]: the items handed to broadcast_callback
Forwards(type) == type \in {"log", "result"}

\* mutant: a job is enqueued for every name a provider prints
TriggersHostDiscovery_AnyResult(ev) ==
  ev.type \in {"result", "subdomain"} /\ ev.subdomain # ""

\* task_run_provider's callback: type == "subdomain" and is_new, and a name
TriggersHostDiscovery(ev) ==
  ev.type = "subdomain" /\ ev.is_new /\ ev.subdomain # ""

\* task_host_discovery's callback: a result with a url
TriggersCrawling(ev) == ev.type = "result" /\ ev.url # <<>>

\* the queue after the job `job` has handed ev to its broadcast_to_redis
AfterCallback(q, job, ev) ==
  IF job = "task_run_provider" /\ TriggersHostDiscovery(ev)
    THEN [q EXCEPT !.task_host_discovery[ev.subdomain] = @ + 1]
  ELSE IF job = "task_host_discovery" /\ TriggersCrawling(ev)
    THEN [q EXCEPT !.task_crawling[ev.url] = @ + 1]
  ELSE q

\* mutant: the vuln-scan job is enqueued in a finally
AfterRunner_Finally(q, job, t, raised) ==
  IF job = "task_crawling" THEN [q EXCEPT !.task_vuln_scan[t] = @ + 1] ELSE q

\* the queue after a job's _runner has ended: task_crawling enqueues the
\* vuln scan of its target_url after run_provider_wrapper has returned
AfterRunner(q, job, t, raised) ==
  IF job = "task_crawling" /\ ~raised
    THEN [q EXCEPT !.task_vuln_scan[t] = @ + 1]
    ELSE q

\* the jobs run in the distributed deployment only
Distributed == deployment = "distributed"

InitWrap ==
  /\ subdomains \in WrapSeedRows
  /\ call = [c \in Callers |-> IdleCall]
  /\ vulns = <<>>
  /\ providers \in {{}, WrapProviders}
  /\ has_callback \in BOOLEAN
  /\ wrap = [w \in Wrappers |-> IdleWrapper]
  /\ sub_events = [s \in Names |-> 0]
  /\ emitted = 0
  /\ RegAtRest
  /\ ScanAtRest
  /\ TMAtRest
  /\ RLAtRest
  /\ ExtraAtRest

\* run_provider_wrapper up to its first await: db_target_domain (urlparse is
\* not imported: NameError), then the registry lookup (ValueError).  The
\* calls are named in the order they are made
WrapCall(w, p, t, root) ==
  /\ wrap[w].pc = "idle"
  /\ w = "w2" => wrap["w1"].pc # "idle"
  /\ wrap' = [wrap EXCEPT ![w] =
       IF root = "None" /\ SchemeInTarget(t)
         THEN [@ EXCEPT !.pc = "raised", !.provider_name = p, !.target = t,
                        !.err = "NameError"]
       ELSE IF p \notin providers
         THEN [@ EXCEPT !.pc = "raised", !.provider_name = p, !.target = t,
                        !.db_target_domain = DbTargetDomain(t, root),
                        !.err = "ValueError"]
       ELSE [@ EXCEPT !.pc = "next", !.provider_name = p, !.target = t,
                      !.db_target_domain = DbTargetDomain(t, root)]]
  /\ celery' = IF Distributed /\ wrap'[w].pc = "raised"
                 THEN AfterRunner(celery, TaskOf(p), t, TRUE)
                 ELSE celery
  /\ UNCHANGED <<subdomains, crawled, vulns, providers, has_callback, sub_events,
                 emitted, deployment, published, notWrap>>

\* the stream yields an item: log and result items are passed to the
\* callback, a result is appended to results and dispatched on
\* provider_name; items of any other type fall through the if/elif
WrapRecv(w, type, data) ==
  /\ wrap[w].pc = "next"
  /\ emitted < MaxEvents
  /\ IF type = "result" THEN data \in ProviderData(wrap[w].provider_name)
     ELSE data = NoData
  /\ emitted' = emitted + 1
  /\ wrap' = [wrap EXCEPT ![w] =
       [@ EXCEPT !.results = IF type = "result" THEN Append(@, data) ELSE @,
                 !.pc = IF type = "result"
                          THEN AfterResult(wrap[w].provider_name, data)
                          ELSE "next"]]
  /\ IF Distributed /\ has_callback /\ Forwards(type)
       THEN /\ published' = published + 1
            /\ celery' = AfterCallback(celery, TaskOf(wrap[w].provider_name),
                                       CallbackEvent(type, data, FALSE))
       ELSE UNCHANGED <<published, celery>>
  /\ UNCHANGED <<subdomains, crawled, vulns, providers, has_callback, sub_events,
                 deployment, notWrap>>

\* the SELECT of the repository call for the current result; skip is the
\* call returning without a commit
WrapSelect(w) ==
  LET data == Current(w)
      skip ==
        CASE wrap[w].pc = "sub_select" -> SubdomainExists(subdomains, data.subdomain)
          [] wrap[w].pc = "alive_select" ->
               HostnameRows(subdomains, Hostname(data.url)) = {}
          [] wrap[w].pc = "crawl_select" ->
               \E i \in 1..Len(crawled) : crawled[i].url = data.endpoint
          [] wrap[w].pc = "vuln_select" ->
               VulnerabilityExists(vulns, wrap[w].db_target_domain, data.name,
                                   data.matched, data.matcher)
      hits == HostnameRows(subdomains, Hostname(data.url))
  IN  /\ wrap[w].pc \in {"sub_select", "alive_select", "crawl_select", "vuln_select"}
      /\ wrap' = [wrap EXCEPT ![w] =
           IF skip THEN [@ EXCEPT !.pc = "next"]
           ELSE CASE wrap[w].pc = "sub_select" -> [@ EXCEPT !.pc = "sub_commit"]
                  [] wrap[w].pc = "alive_select" ->
                       [@ EXCEPT !.pc = "alive_commit",
                                 !.row = CHOOSE i \in hits : \A j \in hits : i <= j]
                  [] wrap[w].pc = "crawl_select" -> [@ EXCEPT !.pc = "crawl_commit"]
                  [] wrap[w].pc = "vuln_select" -> [@ EXCEPT !.pc = "vuln_commit"]]
      /\ UNCHANGED <<subdomains, crawled, vulns, providers, has_callback,
                     sub_events, emitted, distVars, notWrap>>

\* session.commit() of the repository call, and for a subdomain the
\* "subdomain" event that follows a True return
WrapCommit(w) ==
  LET data == Current(w)
      is_new == ~SubdomainUniqueViolation(subdomains, data.subdomain)
  IN  /\ wrap[w].pc \in {"sub_commit", "alive_commit", "crawl_commit", "vuln_commit"}
      /\ wrap' = [wrap EXCEPT ![w] = [@ EXCEPT !.pc = "next", !.row = 0]]
      /\ subdomains' =
           CASE wrap[w].pc = "sub_commit" /\ is_new ->
                  Append(subdomains, NewSubdomain(wrap[w].target, data.subdomain,
                                                  wrap[w].provider_name))
             [] wrap[w].pc = "alive_commit" ->
                  [subdomains EXCEPT ![wrap[w].row].is_alive = TRUE]
             [] OTHER -> subdomains
      /\ sub_events' =
           IF wrap[w].pc = "sub_commit" /\ BroadcastsIsNew(is_new, has_callback)
             THEN [sub_events EXCEPT ![data.subdomain] = @ + 1]
             ELSE sub_events
      /\ crawled' =
           IF wrap[w].pc = "crawl_commit"
             THEN WithCrawled(crawled, wrap[w].db_target_domain, data.endpoint, "Katana")
             ELSE crawled
      /\ vulns' =
           IF wrap[w].pc = "vuln_commit"
             THEN Append(vulns, NewVulnerability(wrap[w].db_target_domain, data.name,
                                                 data.matched, data.matcher))
             ELSE vulns
      /\ IF Distributed /\ wrap[w].pc = "sub_commit"
            /\ BroadcastsIsNew(is_new, has_callback)
           THEN /\ published' = published + 1
                /\ celery' = AfterCallback(celery, TaskOf(wrap[w].provider_name),
                                           CallbackEvent("subdomain", data, TRUE))
           ELSE UNCHANGED <<published, celery>>
      /\ UNCHANGED <<providers, has_callback, emitted, deployment, notWrap>>

\* the stream ends: return results
WrapEOF(w) ==
  /\ wrap[w].pc = "next"
  /\ wrap' = [wrap EXCEPT ![w].pc = "done"]
  /\ celery' = IF Distributed
                 THEN AfterRunner(celery, TaskOf(wrap[w].provider_name),
                                  wrap[w].target, FALSE)
                 ELSE celery
  /\ UNCHANGED <<subdomains, crawled, vulns, providers, has_callback, sub_events,
                 emitted, deployment, published, notWrap>>

\* the stream raises (a provider's configuration lookup fails, or the
\* provider re-raises a cancellation): the wrapper ends with the exception
WrapStreamRaises(w) ==
  /\ wrap[w].pc = "next"
  /\ wrap' = [wrap EXCEPT ![w].pc = "raised", ![w].err = "stream"]
  /\ celery' = IF Distributed
                 THEN AfterRunner(celery, TaskOf(wrap[w].provider_name),
                                  wrap[w].target, TRUE)
                 ELSE celery
  /\ UNCHANGED <<subdomains, crawled, vulns, providers, has_callback, sub_events,
                 emitted, deployment, published, notWrap>>

NextWrap ==
  \/ \E w \in Wrappers, p \in WrapProviders, a \in WrapArgs :
       WrapCall(w, p, a[1], a[2])
  \/ \E w \in Wrappers, type \in {"log", "result", "error"},
        data \in {NoData} \cup UNION {ProviderData(p) : p \in WrapProviders} :
       WrapRecv(w, type, data)
  \/ \E w \in Wrappers : WrapSelect(w)
  \/ \E w \in Wrappers : WrapCommit(w)
  \/ \E w \in Wrappers : WrapEOF(w)
  \/ \E w \in Wrappers : WrapStreamRaises(w)

SpecWrap == InitWrap /\ [][NextWrap]_vars

\* positions in w's results that w has finished handling
HandledAt(w) ==
  {i \in 1..Len(wrap[w].results) :
     i < Len(wrap[w].results) \/ wrap[w].pc \in {"next", "done", "raised"}}

\* a subdomain provider's wrapper has finished handling the name s
SubdomainHandled(s) ==
  \E w \in Wrappers :
    /\ wrap[w].provider_name \in SubdomainProviders
    /\ \E i \in HandledAt(w) : wrap[w].results[i].subdomain = s

\* a wrapper is between receiving the name s and the end of its handling
SubdomainInHand(s) ==
  \E w \in Wrappers :
    /\ wrap[w].pc \in {"sub_select", "sub_commit"}
    /\ Current(w).subdomain = s

\* the names of which no row was stored before the wrappers ran never have
\* two rows or two events, and have one row once handled
OneRowPerName(s) ==
  /\ Cardinality(SubRowsOf(s)) <= 1
  /\ sub_events[s] <= 1
  /\ (SubdomainHandled(s) /\ ~SubdomainInHand(s)) => Cardinality(SubRowsOf(s)) = 1

\* C8 as stated: for names not stored before, whatever sequence of names
\* the subdomain providers emit, every handled name has exactly one
\* Subdomain row and exactly one subdomain event with is_new=true
C8_OneRowOneEvent ==
  \A s \in Names :
    ~PreStored(s) =>
      /\ OneRowPerName(s)
      /\ (SubdomainHandled(s) /\ ~SubdomainInHand(s)) => sub_events[s] = 1

\* C8, amended: the same, the event being broadcast only by wrappers that are
\* given a broadcast callback; without one the rows are stored and no event
\* is sent
C8_OneRowOneEventWithCallback ==
  \A s \in Names :
    ~PreStored(s) =>
      /\ OneRowPerName(s)
      /\ (SubdomainHandled(s) /\ ~SubdomainInHand(s)) =>
           sub_events[s] = (IF has_callback THEN 1 ELSE 0)

\* one wrapper with a callback has handled a, b, a: two rows, two events
C8_Witness ==
  /\ has_callback
  /\ subdomains = <<NewSubdomain("example.org", "a.example.com", "Subfinder"),
                    NewSubdomain("example.org", "b.example.com", "Subfinder")>>
  /\ \E w \in Wrappers :
       /\ wrap[w].pc = "next"
       /\ wrap[w].results = <<[NoData EXCEPT !.subdomain = "a.example.com"],
                              [NoData EXCEPT !.subdomain = "b.example.com"],
                              [NoData EXCEPT !.subdomain = "a.example.com"]>>
  /\ sub_events = [s \in Names |-> 1]

\* the wrapper w is handling an HTTPX result whose url is scheme://h with an
\* optional path, and a row for h is stored
AliveCase(w, scheme, h, path) ==
  /\ wrap[w].provider_name = "HTTPX"
  /\ wrap[w].pc \in {"alive_select", "alive_commit"}
  /\ Current(w).url = MakeUrl(scheme, h, path)
  /\ SubdomainExists(subdomains, h)

\* C9: when HTTPX emits a result whose url is http://h or https://h,
\* optionally with a path, and a row for h is stored, the wrapper's handling
\* of it sets is_alive of the row for h and changes is_alive of no other row
C9_AliveSetForStoredHost ==
  [][\A w \in Wrappers, scheme \in Schemes, h \in Names, path \in Paths :
       (AliveCase(w, scheme, h, path) /\ wrap'[w] # wrap[w]) =>
          /\ wrap[w].pc = "alive_select" =>
               wrap'[w].pc = "alive_commit" /\ subdomains' = subdomains
          /\ wrap[w].pc = "alive_commit" =>
               /\ wrap'[w].pc = "next"
               /\ Len(subdomains') = Len(subdomains)
               /\ \A i \in 1..Len(subdomains) :
                    subdomains'[i].is_alive =
                      (subdomains[i].subdomain = h \/ subdomains[i].is_alive)]_vars

\* a wrapper has handled https://b.example.com/login: the row for
\* b.example.com is alive and the other stored row is not
C9_Witness ==
  /\ \E w \in Wrappers :
       /\ wrap[w].provider_name = "HTTPX"
       /\ wrap[w].pc = "next"
       /\ Len(wrap[w].results) = 1
       /\ Current(w).url = MakeUrl("https://", "b.example.com", <<"/", "login">>)
  /\ Len(subdomains) = 2
  /\ \A i \in 1..Len(subdomains) :
       subdomains[i].is_alive = (subdomains[i].subdomain = "b.example.com")

VulnRowsOf(d, f) ==
  Indices(vulns, LAMBDA r : r = NewVulnerability(d, f.name, f.matched, f.matcher))

\* the Nuclei wrappers with db_target_domain d whose stream emitted f
FindingEmitters(d, f) ==
  {w \in Wrappers : /\ wrap[w].provider_name = "Nuclei"
                    /\ wrap[w].db_target_domain = d
                    /\ \E i \in 1..Len(wrap[w].results) : wrap[w].results[i] = f}

FindingHandled(d, f) ==
  \E w \in FindingEmitters(d, f) : \E i \in HandledAt(w) : wrap[w].results[i] = f

\* C10: a finding with a name and a matched-at URL that a Nuclei wrapper
\* has handled has a Vulnerability row for (target_domain, name, url,
\* matcher), and however often a wrapper handles it, that wrapper adds no
\* second row: one wrapper emitting it leaves exactly one row
C10_OneRowPerFinding ==
  \A d \in {"example.org", "example.com"}, f \in NucleiFindings :
    (f.name # "" /\ f.matched # "") =>
      /\ Cardinality(VulnRowsOf(d, f)) <= Cardinality(FindingEmitters(d, f))
      /\ FindingHandled(d, f) => Cardinality(VulnRowsOf(d, f)) >= 1

\* one wrapper has handled the same finding MaxEvents times and one row is
\* stored
C10_Witness ==
  /\ Len(vulns) = 1
  /\ \E w \in Wrappers :
       /\ wrap[w].provider_name = "Nuclei"
       /\ wrap[w].pc = "next"
       /\ Len(wrap[w].results) = MaxEvents
       /\ \A i \in 1..MaxEvents : wrap[w].results[i] = wrap[w].results[1]
       /\ wrap[w].results[1].name # ""

\* C22: after any interleaving of add_vulnerability calls no two rows of the
\* vulnerabilities table have the same (target_domain, name, url, matcher)
C22_VulnerabilityKeyUnique ==
  \A i, j \in 1..Len(vulns) :
     (/\ vulns[i].target_domain = vulns[j].target_domain
      /\ vulns[i].name = vulns[j].name
      /\ vulns[i].url = vulns[j].url
      /\ vulns[i].matcher_name = vulns[j].matcher_name) => i = j

(***************************************************************************)
(* SpecAlive: update_subdomain_alive called with a URL and with the bare    *)
(* hostname, on two copies of the same table                                *)
(***************************************************************************)
\* paths of the URLs passed: none, a trailing slash, segments, and a query
\* that carries another URL
AlivePaths ==
  Paths \cup {<<"/">>, <<"/", "go?u=", "http://", "x.example.com", "/", "y">>}

\* tables the calls may find: any subset of the names, each alive or not
AliveTables ==
  {<<>>} \cup
  {<<[NewSubdomain("example.com", "a.example.com", "Subfinder") EXCEPT !.is_alive = x]>> :
     x \in BOOLEAN} \cup
  {<<[NewSubdomain("example.com", "b.example.com", "Root") EXCEPT !.is_alive = x],
     [NewSubdomain("example.com", "a.example.com", "Subfinder") EXCEPT !.is_alive = y]>> :
     x \in BOOLEAN, y \in BOOLEAN}

\* mutant: the flag is flipped instead of set
AliveValue_Flip(old, is_alive) == ~old

\* sub.is_alive = is_alive
AliveValue(old, is_alive) == is_alive

\* update_subdomain_alive(subdomain, is_alive) run to completion: the first
\* row whose subdomain equals the normalised argument gets the flag; the
\* return value tells whether a row was found
UpdateSubdomainAlive(rows, subdomain, is_alive) ==
  LET hits == HostnameRows(rows, Hostname(subdomain))
      first == CHOOSE i \in hits : \A j \in hits : i <= j
  IN  IF hits = {} THEN [rows |-> rows, ret |-> FALSE]
      ELSE [rows |-> [rows EXCEPT ![first].is_alive = AliveValue(@, is_alive)],
            ret |-> TRUE]

InitAlive ==
  /\ \E rows \in AliveTables : aliveStore = [url |-> rows, host |-> rows]
  /\ aliveOp = NoAliveOp
  /\ aliveOnce = [url |-> <<>>, host |-> <<>>, url_ret |-> FALSE, host_ret |-> FALSE]
  /\ RepoAtRest
  /\ RegAtRest
  /\ ScanAtRest
  /\ TMAtRest
  /\ RLAtRest
  /\ WrapAtRest
  /\ ProvAtRest
  /\ DistAtRest

\* update_subdomain_alive(scheme://h/path, is_alive) on one copy and
\* update_subdomain_alive(h, is_alive) on the other
AliveUpdate(scheme, h, path, is_alive) ==
  LET u == UpdateSubdomainAlive(aliveStore.url, MakeUrl(scheme, h, path), is_alive)
      b == UpdateSubdomainAlive(aliveStore.host, <<h>>, is_alive)
  IN  /\ aliveStore' = [url |-> u.rows, host |-> b.rows]
      /\ aliveOp' = [scheme |-> scheme, h |-> h, path |-> path,
                     is_alive |-> is_alive, times |-> "once"]
      /\ aliveOnce' = [url |-> u.rows, host |-> b.rows,
                       url_ret |-> u.ret, host_ret |-> b.ret]
      /\ UNCHANGED notAlive

\* the same two calls made a second time
AliveRepeat ==
  LET u == UpdateSubdomainAlive(aliveStore.url,
             MakeUrl(aliveOp.scheme, aliveOp.h, aliveOp.path), aliveOp.is_alive)
      b == UpdateSubdomainAlive(aliveStore.host, <<aliveOp.h>>, aliveOp.is_alive)
  IN  /\ aliveOp.times = "once"
      /\ aliveStore' = [url |-> u.rows, host |-> b.rows]
      /\ aliveOp' = [aliveOp EXCEPT !.times = "twice"]
      /\ aliveOnce' = [aliveOnce EXCEPT !.url_ret = u.ret, !.host_ret = b.ret]
      /\ UNCHANGED notAlive

NextAlive ==
  \/ \E scheme \in Schemes, h \in Names, path \in AlivePaths, is_alive \in BOOLEAN :
       AliveUpdate(scheme, h, path, is_alive)
  \/ AliveRepeat

SpecAlive == InitAlive /\ [][NextAlive]_vars

\* C12: for a stored hostname h, update_subdomain_alive(scheme://h/p, alive)
\* and update_subdomain_alive(h, alive) return the same value and leave the
\* same table, the flag of h being the one passed; applied a second time,
\* each leaves the table as it was after the first
C12_UrlAndHostnameAgree ==
  (aliveOp.times # "none" /\ SubdomainExists(aliveStore.host, aliveOp.h)) =>
     /\ aliveStore.url = aliveStore.host
     /\ aliveOnce.url_ret = aliveOnce.host_ret
     /\ aliveOnce.url_ret
     /\ \A i \in 1..Len(aliveStore.url) :
          aliveStore.url[i].subdomain = aliveOp.h =>
            aliveStore.url[i].is_alive = aliveOp.is_alive
     /\ aliveOp.times = "twice" =>
          aliveStore.url = aliveOnce.url /\ aliveStore.host = aliveOnce.host

\* the two calls were made twice with a URL that has a path, for a stored
\* hostname whose flag they changed
C12_Witness ==
  /\ aliveOp.times = "twice"
  /\ aliveOp.path # <<>>
  /\ ~aliveOp.is_alive
  /\ Len(aliveStore.url) = 2
  /\ \E i \in 1..2 : /\ aliveStore.url[i].subdomain = aliveOp.h
                     /\ ~aliveStore.url[i].is_alive
  /\ \E i \in 1..2 : aliveStore.url[i].is_alive

(***************************************************************************)
(* SpecProv: one provider's stream_output generator, from the call to the  *)
(* end of the stream, over every output the tool may produce               *)
(***************************************************************************)
ProvNames ==
  {"Subfinder", "Assetfinder", "Findomain", "HTTPX", "Katana", "Nuclei", "Ffuf"}

\* providers whose generator wraps the read loop in try/except and brackets
\* it with a start log and an exit event; FfufProvider.run is a bare loop
\* over the lines of its command
GuardedProviders == ProvNames \ {"Ffuf"}

\* providers that look their flags up with self.get_config
ConfigProviders == {"Subfinder", "HTTPX", "Katana", "Nuclei"}

\* providers that json.loads each line
JsonProviders == {"HTTPX", "Katana", "Nuclei"}

\* providers that keep a line only `if target in decoded`
FilterProviders == {"Assetfinder", "Findomain"}

\* the lines a tool may write: blank (only whitespace), or text that is
\* valid UTF-8 or not, that is a JSON object, another JSON value or no JSON,
\* and that contains the target or not
OutputLines ==
  {NoLine} \cup
  [blank : {FALSE}, utf8 : BOOLEAN, json : {"object", "scalar", "invalid"},
   has_target : BOOLEAN]

ExitCodes == {0, 1}

ProvEvent(type, tag, line) == [type |-> type, tag |-> tag, line |-> line]

\* mutant: the companion log is yielded before the result
LineYields_LogFirst(p, ln) ==
  IF ~ln.utf8 THEN <<"raise">>
  ELSE IF ln.blank THEN <<>>
  ELSE IF p = "Ffuf"
    THEN CASE ln.json = "object" -> <<"log", "result">>
           [] ln.json = "scalar" -> <<"result", "raise">>
           [] OTHER -> <<>>
  ELSE IF p \in JsonProviders
    THEN CASE ln.json = "object" -> <<"log", "result">>
           [] ln.json = "scalar" -> <<"result", "raise">>
           [] OTHER -> <<"rawlog">>
  ELSE IF p \in FilterProviders /\ ~ln.has_target THEN <<>>
  ELSE <<"log", "result">>

\* the body of the read loop for one line: what it yields, in order, and
\* whether it ends by raising.  line.decode raises on bytes that are not
\* UTF-8; a JSON provider yields the decoded value and then calls .get on
\* it, which raises when the value is not an object; a line json.loads
\* rejects is yielded as a raw log, except by Ffuf, whose handler is `pass`
LineYields(p, ln) ==
  IF ~ln.utf8 THEN <<"raise">>
  ELSE IF ln.blank THEN <<>>
  ELSE IF p = "Ffuf"
    THEN CASE ln.json = "object" -> <<"result", "log">>
           [] ln.json = "scalar" -> <<"result", "raise">>
           [] OTHER -> <<>>
  ELSE IF p \in JsonProviders
    THEN CASE ln.json = "object" -> <<"result", "log">>
           [] ln.json = "scalar" -> <<"result", "raise">>
           [] OTHER -> <<"rawlog">>
  ELSE IF p \in FilterProviders /\ ~ln.has_target THEN <<>>
  ELSE <<"result", "log">>

\* the event a yield of the loop body produces for line number n
YieldEvent(y, n) ==
  CASE y = "result" -> ProvEvent("result", "found", n)
    [] y = "log" -> ProvEvent("log", "found", n)
    [] y = "rawlog" -> ProvEvent("log", "raw", n)

\* after process.wait(): Subfinder reports a non-zero exit code with the
\* captured stderr, every other provider logs completion whatever the code
ExitEvent(p, rc) ==
  IF p = "Subfinder" /\ rc # 0 THEN ProvEvent("error", "exit_error", 0)
  ELSE ProvEvent("log", "complete", 0)

InitProv ==
  /\ pv = ProvIdle
  /\ pout = <<>>
  /\ RepoAtRest
  /\ RegAtRest
  /\ ScanAtRest
  /\ TMAtRest
  /\ RLAtRest
  /\ WrapAtRest
  /\ AliveAtRest
  /\ DistAtRest

\* stream_output(target, config, scan_id) is called and iterated
ProvCall(p) ==
  /\ pv.pc = "idle"
  /\ pv' = [pv EXCEPT !.name = p,
                       !.pc = IF p \in ConfigProviders THEN "config"
                              ELSE IF p \in GuardedProviders THEN "start"
                              ELSE "spawn"]
  /\ UNCHANGED <<pout, notProv>>

\* await self.get_config("tool:<name>:flags", default): the flags or the
\* default come back, or the lookup raises (BaseProvider defines no
\* get_config) and the stream ends with the exception before any event
ProvGetConfig(ok) ==
  /\ pv.pc = "config"
  /\ pv' = [pv EXCEPT !.pc = IF ok THEN "start" ELSE "raised"]
  /\ UNCHANGED <<pout, notProv>>

\* yield {"type": "log", "data": "[*] Starting ..."}
ProvStartLog ==
  /\ pv.pc = "start"
  /\ pout' = Append(pout, ProvEvent("log", "start", 0))
  /\ pv' = [pv EXCEPT !.pc = "spawn"]
  /\ UNCHANGED notProv

\* process = await self._run_command(command, scan_id)
ProvSpawn ==
  /\ pv.pc = "spawn"
  /\ pv' = [pv EXCEPT !.pc = "read", !.proc = "running"]
  /\ UNCHANGED <<pout, notProv>>

\* the command cannot be started (create_subprocess_shell raises; in
\* FfufProvider.run the value of _run_command is not an async iterator):
\* a guarded provider goes to its except clause, Ffuf's generator raises
ProvSpawnFails ==
  /\ pv.pc = "spawn"
  /\ pv' = [pv EXCEPT !.pc = IF pv.name \in GuardedProviders THEN "except"
                              ELSE "raised"]
  /\ UNCHANGED <<pout, notProv>>

\* line = await process.stdout.readline() returns a line
ProvReadLine(ln) ==
  /\ pv.pc = "read"
  /\ pv.nread < MaxLines
  /\ LET ys == LineYields(pv.name, ln)
     IN  pv' = [pv EXCEPT !.nread = @ + 1, !.cur = ln, !.pending = ys,
                          !.pc = IF ys = <<>> THEN "read" ELSE "yield"]
  /\ UNCHANGED <<pout, notProv>>

\* the loop body runs to its next yield, or to the statement that raises
ProvYield ==
  /\ pv.pc = "yield"
  /\ LET y == Head(pv.pending)
     IN  IF y = "raise"
           THEN /\ pv' = [pv EXCEPT !.pending = <<>>,
                                     !.pc = IF pv.name \in GuardedProviders
                                            THEN "except" ELSE "raised"]
                /\ pout' = pout
           ELSE /\ pout' = Append(pout, YieldEvent(y, pv.nread))
                /\ pv' = [pv EXCEPT !.pending = Tail(@),
                                     !.pc = IF Tail(pv.pending) = <<>> THEN "read"
                                            ELSE "yield"]
  /\ UNCHANGED notProv

\* readline returns b"": break; Ffuf's loop just ends
ProvEOF ==
  /\ pv.pc = "read"
  /\ pv' = [pv EXCEPT !.pc = IF pv.name \in GuardedProviders THEN "wait"
                              ELSE "done"]
  /\ UNCHANGED <<pout, notProv>>

\* await process.wait() returns and the exit event is yielded
ProvExit(rc) ==
  /\ pv.pc = "wait"
  /\ pout' = Append(pout, ExitEvent(pv.name, rc))
  /\ pv' = [pv EXCEPT !.pc = "done", !.proc = "exited", !.rc = rc]
  /\ UNCHANGED notProv

\* except Exception as e: yield {"type": "error", "data": "... Failed: e"};
\* the generator then ends, the subprocess is neither awaited nor stopped
ProvExcept ==
  /\ pv.pc = "except"
  /\ pout' = Append(pout, ProvEvent("error", "failed", 0))
  /\ pv' = [pv EXCEPT !.pc = "done"]
  /\ UNCHANGED notProv

\* the consuming task is cancelled while the generator awaits the spawn, a
\* line or the exit: except asyncio.CancelledError yields an error event
ProvCancel ==
  /\ pv.pc \in {"spawn", "read", "wait"}
  /\ pv.name \in GuardedProviders
  /\ pout' = Append(pout, ProvEvent("error", "cancelled", 0))
  /\ pv' = [pv EXCEPT !.pc = "reraise"]
  /\ UNCHANGED notProv

\* the same in FfufProvider.run, which has no handler: the cancellation
\* leaves the generator at once
ProvCancelBare ==
  /\ pv.pc \in {"spawn", "read"}
  /\ pv.name \notin GuardedProviders
  /\ pv' = [pv EXCEPT !.pc = "raised"]
  /\ UNCHANGED <<pout, notProv>>

\* ... and, resumed, re-raises: `raise`
ProvReraise ==
  /\ pv.pc = "reraise"
  /\ pv' = [pv EXCEPT !.pc = "raised"]
  /\ UNCHANGED <<pout, notProv>>

NextProv ==
  \/ \E p \in ProvNames : ProvCall(p)
  \/ \E ok \in BOOLEAN : ProvGetConfig(ok)
  \/ ProvStartLog
  \/ ProvSpawn
  \/ ProvSpawnFails
  \/ \E ln \in OutputLines : ProvReadLine(ln)
  \/ ProvYield
  \/ ProvEOF
  \/ \E rc \in ExitCodes : ProvExit(rc)
  \/ ProvExcept
  \/ ProvCancel
  \/ ProvCancelBare
  \/ ProvReraise

SpecProv == InitProv /\ [][NextProv]_vars

\* C20: within one provider's stream, the result event of an output line
\* comes before every log event about that line, and a companion log is
\* yielded only right after the result of the same line
C20_ResultBeforeLog ==
  /\ \A i, j \in 1..Len(pout) :
       (pout[i].type = "result" /\ pout[j].type = "log"
          /\ pout[j].line = pout[i].line) => i < j
  /\ \A j \in 1..Len(pout) :
       (pout[j].type = "log" /\ pout[j].tag = "found") =>
          /\ j > 1
          /\ pout[j - 1].type = "result"
          /\ pout[j - 1].line = pout[j].line

\* a provider that reads no configuration has yielded result and log for
\* each of its lines and ended
C20_Witness ==
  /\ pv.pc = "done"
  /\ pv.name \in FilterProviders
  /\ \A n \in 1..MaxLines :
       \E i \in 1..Len(pout) :
          /\ i < Len(pout)
          /\ pout[i] = ProvEvent("result", "found", n)
          /\ pout[i + 1] = ProvEvent("log", "found", n)

\* providers that json.loads each line, FfufProvider.run included
JsonDecoders == JsonProviders \cup {"Ffuf"}

\* a non-empty line that json.loads rejects
FailsJson(ln) == ln.utf8 /\ ~ln.blank /\ ln.json = "invalid"

C30_CancelTerminatesSubprocess ==
  /\ [][(pv.pc = "reraise" /\ pv' # pv) => pv'.pc = "raised"]_vars
  /\ []((/\ pv.pc = "raised"
         /\ pout # <<>>
         /\ pout[Len(pout)].tag = "cancelled") => pv.proc # "running")

\* the positions of the exit events in the stream
ExitEvents == {i \in 1..Len(pout) : pout[i].tag \in {"complete", "exit_error"}}

\* C31: a stream of one of the six providers whose subprocess was launched
\* ends with exactly one exit event, after every result event: an error
\* event when the exit code is not zero, the terminal log only when it is
C31_OneExitEventByCode ==
  (pv.name \in GuardedProviders /\ pv.pc = "done" /\ pv.proc # "none") =>
     /\ ExitEvents = {Len(pout)}
     /\ pv.proc = "exited"
     /\ pv.rc # 0 => pout[Len(pout)] = ProvEvent("error", "exit_error", 0)
     /\ pv.rc = 0 => pout[Len(pout)] = ProvEvent("log", "complete", 0)

(***************************************************************************)
(* SpecDist: the Celery jobs of core/tasks.py, each running                 *)
(* run_provider_wrapper with its broadcast_to_redis callback                *)
(***************************************************************************)
InitDist ==
  /\ subdomains \in WrapSeedRows
  /\ call = [c \in Callers |-> IdleCall]
  /\ vulns = <<>>
  /\ providers = WrapProviders
  /\ has_callback = TRUE
  /\ wrap = [w \in Wrappers |-> IdleWrapper]
  /\ sub_events = [s \in Names |-> 0]
  /\ emitted = 0
  /\ deployment = "distributed"
  /\ published = 0
  /\ celery = EmptyQueue
  /\ RegAtRest
  /\ ScanAtRest
  /\ TMAtRest
  /\ RLAtRest
  /\ AliveAtRest
  /\ ProvAtRest

SpecDist == InitDist /\ [][NextWrap]_vars

\* C32: whenever a callback is set, every event a provider stream yields,
\* of whatever type, is handed to the callback exactly once
C32_EveryEventForwardedOnce ==
  [][(has_callback /\ emitted' = emitted + 1) => published' = published + 1]_vars

\* C37: a host-discovery job is enqueued for a subdomain exactly when a
\* subdomain event with is_new=true is broadcast for it, so however many
\* provider jobs run concurrently each subdomain gets at most one job
C37_OneHostDiscoveryPerNewSubdomain ==
  \A s \in Names :
    /\ celery.task_host_discovery[s] = sub_events[s]
    /\ celery.task_host_discovery[s] <= 1

\* two concurrent provider jobs have both handled a.example.com: one job
C37_Witness ==
  /\ \A w \in Wrappers :
       /\ wrap[w].provider_name = "Subfinder"
       /\ wrap[w].pc = "next"
       /\ wrap[w].results = <<[NoData EXCEPT !.subdomain = "a.example.com"]>>
  /\ celery.task_host_discovery["a.example.com"] = 1

\* the crawl jobs for t that have consumed their stream to its end
FinishedCrawlJobs(t) ==
  {w \in Wrappers : /\ wrap[w].provider_name = "Katana"
                    /\ wrap[w].target = t
                    /\ wrap[w].pc = "done"}

\* C40: the vuln-scan job for a URL is enqueued only after the crawl job for
\* it has consumed its provider stream, once per crawl job that ends without
\* raising, and a crawl job that raises enqueues none
C40_VulnScanAfterCrawl ==
  \A t \in CrawlJobTargets :
    celery.task_vuln_scan[t] = Cardinality(FinishedCrawlJobs(t))

\* one crawl job has stored an endpoint and ended, the other has raised:
\* one vuln-scan job, for the first one's target
C40_Witness ==
  /\ \E w \in Wrappers :
       /\ w \in FinishedCrawlJobs("example.org")
       /\ Len(wrap[w].results) = 1
  /\ \E w \in Wrappers :
       /\ wrap[w].provider_name = "Katana"
       /\ wrap[w].target = "http://a.example.com"
       /\ wrap[w].pc = "raised"
  /\ celery.task_vuln_scan =
       [t \in CrawlJobTargets |-> IF t = "example.org" THEN 1 ELSE 0]

(***************************************************************************)
(* SpecStore: run_provider_wrapper over a store whose statements can fail   *)
(* (SpecWrap and SpecDist are the runs in which none does)                  *)
(***************************************************************************)
\* inside add_subdomain, add_crawled_url or add_vulnerability
AddPcs ==
  {"sub_select", "sub_commit", "crawl_select", "crawl_commit", "vuln_select",
   "vuln_commit"}

\* session.execute or session.commit raises: the add_* methods enter their
\* except arm; update_subdomain_alive has none and the exception leaves the
\* wrapper
WrapStoreError(w) ==
  /\ wrap[w].pc \in AddPcs \cup {"alive_select", "alive_commit"}
  /\ wrap' = [wrap EXCEPT ![w] =
       IF wrap[w].pc \in AddPcs
         THEN [@ EXCEPT !.pc = "rollback", !.row = 0]
         ELSE [@ EXCEPT !.pc = "raised", !.row = 0, !.err = "store"]]
  /\ UNCHANGED <<subdomains, crawled, vulns, providers, has_callback, sub_events,
                 emitted, distVars, notWrap>>

\* mutant: the except arm re-raises after the rollback
WrapRollback_Reraise(w) ==
  /\ wrap[w].pc = "rollback"
  /\ wrap' = [wrap EXCEPT ![w].pc = "raised", ![w].err = "store"]
  /\ UNCHANGED <<subdomains, crawled, vulns, providers, has_callback, sub_events,
                 emitted, distVars, notWrap>>

\* await session.rollback(); return False: is_new is false, no event, and
\* the wrapper asks the stream for its next item
WrapRollback(w) ==
  /\ wrap[w].pc = "rollback"
  /\ wrap' = [wrap EXCEPT ![w].pc = "next"]
  /\ UNCHANGED <<subdomains, crawled, vulns, providers, has_callback, sub_events,
                 emitted, distVars, notWrap>>

InitStore ==
  /\ subdomains = <<>>
  /\ call = [c \in Callers |-> IdleCall]
  /\ vulns = <<>>
  /\ providers = WrapProviders
  /\ has_callback = TRUE
  /\ wrap = [w \in Wrappers |-> IdleWrapper]
  /\ sub_events = [s \in Names |-> 0]
  /\ emitted = 0
  /\ RegAtRest
  /\ ScanAtRest
  /\ TMAtRest
  /\ RLAtRest
  /\ ExtraAtRest

NextStore ==
  \/ NextWrap
  \/ \E w \in Wrappers : WrapStoreError(w)
  \/ \E w \in Wrappers : WrapRollback(w)

SpecStore == InitStore /\ [][NextStore]_vars

\* the three tables
Tables == <<subdomains, crawled, vulns>>

\* C35: when the store raises during add_subdomain, add_crawled_url or
\* add_vulnerability, the call rolls back and returns false without adding a
\* row or sending an event, and the wrapper goes on to the stream's next
\* event instead of failing
C35_StoreErrorIsContained ==
  [][\A w \in Wrappers :
       (wrap[w].pc = "rollback" /\ wrap'[w] # wrap[w]) =>
          /\ wrap'[w] = [wrap[w] EXCEPT !.pc = "next"]
          /\ Tables' = Tables
          /\ sub_events' = sub_events]_vars

\* the store failed on the first name, which has no row, and then on the
\* second name of the same stream
C35_Witness ==
  \E w \in Wrappers :
    /\ wrap[w].provider_name = "Subfinder"
    /\ wrap[w].pc = "rollback"
    /\ Len(wrap[w].results) = 2
    /\ wrap[w].results[1].subdomain = "a.example.com"
    /\ ~SubdomainExists(subdomains, "a.example.com")

====
